---- MODULE Spec2Model ----
(***************************************************************************)
(* Cover Art Cache: the Redis-backed cache index (DistributedCacheIndex),  *)
(* the rebuild pipeline (scan_cache_directory / atomic_index_swap) and the *)
(* serving path that feeds the index, modelled from the Python sources.    *)
(*                                                                         *)
(* Strings are tuples of one-character strings; a Redis string key is a    *)
(* record [present, val]; a Redis hash is a function whose domain is the   *)
(* set of its fields (a hash without fields is an absent key).             *)
(***************************************************************************)
EXTENDS Integers, Sequences, FiniteSets, TLC

\* ------------------------------------------------------------------ bounds
NumProcs == 2       \* serving processes that call the index concurrently
MaxSize  == 2       \* file sizes are drawn from 1..MaxSize
NumMbids == 2       \* distinct valid MBIDs
MaxDrift == 2       \* new calls start only while the counter is within MaxDrift of 0..MaxSize*NumMbids
MaxFiles == 2       \* files in a scanned cache tree
MaxEvictFiles == 3  \* files in a cache tree handed to the cleanup service
NumCleaners == 2    \* cleanup services running at once
MaxLockFiles == 2   \* files in a cache tree shared by concurrent cleanup services
MaxCached == 1      \* new requests start only while at most MaxCached files are cached
MaxMixedFiles == 3  \* files in a scanned cache tree that holds a malformed name

\* --------------------------------------------------------------- constants
CACHE_TYPE_RELEASE == "release"
CACHE_TYPE_RELEASE_GROUP == "release-group"
CacheTypes == {CACHE_TYPE_RELEASE, CACHE_TYPE_RELEASE_GROUP}

HexDigits == <<"a", "b", "c", "d", "e", "f", "0", "1", "2", "3", "4", "5", "6", "7", "8", "9">>
HexSet == {HexDigits[i] : i \in 1..Len(HexDigits)}

\* The i-th MBID of the model: the hex digit i repeated in the 8-4-4-4-12 layout.
Mbid(i) == [n \in 1..36 |-> IF n \in {9, 14, 19, 24} THEN "-" ELSE HexDigits[i]]
Mbids == {Mbid(i) : i \in 1..NumMbids}

Front == <<"f", "r", "o", "n", "t">>
ExtJpg == <<".", "j", "p", "g">>
ExtPng == <<".", "p", "n", "g">>

Procs == 1..NumProcs
Sizes == 1..MaxSize

\* ------------------------------------------------------------- path codec
\* Python slice s[a:b] on a string.
Slice(s, a, b) == SubSeq(s, a + 1, IF b < Len(s) THEN b ELSE Len(s))

\* MBID_PATTERN: ^[0-9a-f]{8}-[0-9a-f]{4}-[0-9a-f]{4}-[0-9a-f]{4}-[0-9a-f]{12}$
\* re.match with a pattern that ends in $: the end of the pattern matches at
\* the end of the string and also just before a newline that ends the string.
validate_mbid(mbid) ==
    LET body == IF Len(mbid) = 37 /\ mbid[37] = "\n" THEN SubSeq(mbid, 1, 36) ELSE mbid
    IN /\ Len(body) = 36
       /\ \A n \in 1..36 :
             IF n \in {9, 14, 19, 24} THEN body[n] = "-" ELSE body[n] \in HexSet

generate_cache_key(mbid, path, size) ==
    IF path # <<>>
    THEN IF size # <<>> THEN mbid \o <<"_">> \o path \o <<"_">> \o size
                        ELSE mbid \o <<"_">> \o path
    ELSE mbid

\* cache_key.split('_')[0]
RECURSIVE SplitFirst(_)
SplitFirst(s) ==
    IF s = <<>> THEN <<>>
    ELSE IF Head(s) = "_" THEN <<>>
    ELSE <<Head(s)>> \o SplitFirst(Tail(s))

get_cache_subdir(cache_type, mbid) ==
    [cache_type |-> cache_type,
     char1 |-> Slice(mbid, 0, 1),
     char2 |-> Slice(mbid, 1, 3),
     char3 |-> Slice(mbid, 0, 3)]

\* A file path: the sharded directory and the file name.
get_cache_path(cache_type, cache_key, extension) ==
    [dir |-> get_cache_subdir(cache_type, SplitFirst(cache_key)),
     name |-> cache_key \o extension]

\* Path.stem: the name up to its last dot (the whole name when the last dot
\* is its first or last character, or when it has none).
LastDot(name) ==
    IF \E i \in 1..Len(name) : name[i] = "."
    THEN CHOOSE i \in 1..Len(name) :
            name[i] = "." /\ \A j \in (i + 1)..Len(name) : name[j] # "."
    ELSE 0

PathStem_FirstDot(name) ==
    IF \E i \in 2..(Len(name) - 1) : name[i] = "."
    THEN SubSeq(name, 1, (CHOOSE i \in 2..(Len(name) - 1) :
                            name[i] = "." /\ \A j \in 2..(i - 1) : name[j] # ".") - 1)
    ELSE name
PathStem(name) ==
    IF LastDot(name) > 1 /\ LastDot(name) < Len(name)
    THEN SubSeq(name, 1, LastDot(name) - 1)
    ELSE name

\* ------------------------------------------------------------------ state
VARIABLES
    items,       \* Redis hash  cache:items        (live entries map)
    total,       \* Redis key   cache:total_bytes  (live counter)
    tempItems,   \* Redis hash  cache:items:temp        (shadow entries map)
    tempTotal,   \* Redis key   cache:total_bytes:temp  (shadow counter)
    redisUp,     \* whether the metadata store answers
    files,       \* the cache tree: path -> [size, mtime]
    active,      \* the serving processes that run
    pc,          \* serving process -> position
    loc,         \* serving process -> locals of the call in progress
    ractive,     \* the rebuild pipelines that run
    rpc,         \* rebuild pipeline -> position
    rloc,        \* rebuild pipeline -> locals of scan_cache_directory / atomic_index_swap
    lock,        \* Redis key   cache:cleanup_lock  (0 when absent, else its holder)
    epc,         \* cleanup service -> position in cleanup_cache
    eloc,        \* cleanup service -> locals of cleanup_cache
    running      \* cleanup service -> its self.running flag

vars == <<items, total, tempItems, tempTotal, redisUp, files, active, pc, loc,
          ractive, rpc, rloc, lock, epc, eloc, running>>

procVars == <<active, pc, loc>>
rebuildVars == <<ractive, rpc, rloc>>
cleanVars == <<lock, epc, eloc, running>>

storeVars == <<items, total, tempItems, tempTotal>>

\* ------------------------------------------------------- Redis primitives
NoKey == [present |-> FALSE, val |-> 0]
NoHash == <<>>

StrSet(v) == [present |-> TRUE, val |-> v]
IncrBy(k, d) == [present |-> TRUE, val |-> k.val + d]
HSet(h, f, v) == [x \in (DOMAIN h) \cup {f} |-> IF x = f THEN v ELSE h[x]]
HDel(h, f) == [x \in (DOMAIN h) \ {f} |-> h[x]]
HLen(h) == Cardinality(DOMAIN h)
Exists(h) == DOMAIN h # {}

\* ------------------------------------------------------------- CacheItem
CacheItem(cache_type, mbid, cache_key, file_path, downloaded_at, size_bytes) ==
    [cache_type |-> cache_type, mbid |-> mbid, cache_key |-> cache_key,
     file_path |-> file_path, downloaded_at |-> downloaded_at,
     size_bytes |-> size_bytes]

None == [cache_key |-> <<>>]

RECURSIVE SumSizes(_)
SumSizes(h) ==
    IF DOMAIN h = {} THEN 0
    ELSE LET f == CHOOSE x \in DOMAIN h : TRUE
         IN h[f].size_bytes + SumSizes(HDel(h, f))

\* ------------------------------------------------------ index operations
\* add_item, first round trip: HGET of the prior entry, old_size from it.
AddOldSize_Zero(h, cache_key) == 0
AddOldSize(h, cache_key) ==
    IF cache_key \in DOMAIN h THEN h[cache_key].size_bytes ELSE 0

\* add_item, second round trip: the pipeline HSET + INCRBY (MULTI/EXEC).
AddPipelineItems(h, item) == HSet(h, item.cache_key, item)
AddPipelineTotal_FullSize(k, item, old_size) == IncrBy(k, item.size_bytes)
AddPipelineTotal(k, item, old_size) == IncrBy(k, item.size_bytes - old_size)

\* remove_item, first round trip: HGET; None when the field is absent.
RemoveLookup(h, cache_key) ==
    IF cache_key \in DOMAIN h THEN h[cache_key] ELSE None

\* remove_item, second round trip: the pipeline HDEL + DECRBY.
RemovePipelineItems_Clear(h, cache_key) == NoHash
RemovePipelineItems(h, cache_key) == HDel(h, cache_key)
RemovePipelineTotal_NoDecr(k, item_data) == IncrBy(k, 0)
RemovePipelineTotal(k, item_data) == IncrBy(k, 0 - item_data.size_bytes)

\* get_total_bytes / get_item_count / get_items_by_type: the except branch
\* returns the default when the store does not answer.
get_total_bytes(k, up) == IF up THEN (IF k.present THEN k.val ELSE 0) ELSE 0
get_item_count(h, up) == IF up THEN HLen(h) ELSE 0
get_items_by_type(h, up, cache_type) ==
    IF up THEN {h[f] : f \in {x \in DOMAIN h : h[x].cache_type = cache_type}} ELSE {}

\* exists(): both keys exist and the hash has data; False on a store error.
exists_CounterOnly(h, k, up) == up /\ k.present
exists(h, k, up) ==
    IF up THEN (IF ~Exists(h) \/ ~k.present THEN FALSE ELSE HLen(h) > 0) ELSE FALSE

\* ------------------------------------------------- serving process steps
\* Locals of a call: its operation and arguments, what it read, and what it
\* handed back (result: remove_item's value; success: download_image's value;
\* bytes/count/listed: the read-only calls' values; raised: whether an
\* exception left the call; applied: whether its pipeline was executed).
Idle == [op |-> "none", item |-> None, key |-> <<>>, old_size |-> 0,
         result |-> None, success |-> FALSE, raised |-> FALSE, applied |-> FALSE,
         bytes |-> 0, count |-> 0, listed |-> {},
         mbid |-> <<>>, path |-> <<>>, size |-> <<>>, cache_path |-> None,
         status |-> 0, cache_status |-> "none", upstream |-> 0]

Keys == {generate_cache_key(m, Front, <<>>) : m \in Mbids}

\* The items a serving process can hand to add_item.
NewItem(cache_type, cache_key, ext, size) ==
    CacheItem(cache_type, SplitFirst(cache_key), cache_key,
              get_cache_path(cache_type, cache_key, ext), 0, size)

\* download_image lines 142-144: add_item's outcome is not looked at.
download_result_NeedsIndex(file_written, index_added) == file_written /\ index_added
download_result(file_written, index_added) == file_written

\* New calls are started only while the live counter is near its range.
CounterInRange ==
    /\ total.val >= 0 - MaxDrift
    /\ total.val <= MaxSize * NumMbids + MaxDrift

\* A caller enters add_item(item).
CallAdd(p) ==
    /\ p \in active /\ pc[p] = "idle" /\ CounterInRange
    /\ \E key \in Keys, size \in Sizes :
          loc' = [loc EXCEPT ![p] = [Idle EXCEPT !.op = "add",
                     !.item = NewItem(CACHE_TYPE_RELEASE, key, ExtJpg, size),
                     !.key = key]]
    /\ pc' = [pc EXCEPT ![p] = "add_read"]
    /\ UNCHANGED <<storeVars, redisUp, files, active, rebuildVars, cleanVars>>

\* download_image: GET the image, write the file, build the CacheItem and
\* enter add_item; a non-200 answer returns False, an exception while
\* writing unlinks the file and returns False.
Download(p) ==
    /\ p \in active /\ pc[p] = "idle" /\ CounterInRange
    /\ \E key \in Keys, size \in Sizes, outcome \in {"ok", "http_error", "io_error"} :
          LET path == get_cache_path(CACHE_TYPE_RELEASE, key, ExtJpg)
              call == [Idle EXCEPT !.op = "download", !.key = key,
                          !.item = NewItem(CACHE_TYPE_RELEASE, key, ExtJpg, size)]
          IN CASE outcome = "ok" ->
                    /\ files' = HSet(files, path, [size |-> size, mtime |-> 0])
                    /\ loc' = [loc EXCEPT ![p] = call]
                    /\ pc' = [pc EXCEPT ![p] = "add_read"]
               [] outcome = "http_error" ->
                    /\ files' = files
                    /\ loc' = [loc EXCEPT ![p] = call]
                    /\ pc' = [pc EXCEPT ![p] = "returned"]
               [] outcome = "io_error" ->
                    /\ files' = HDel(files, path)
                    /\ loc' = [loc EXCEPT ![p] = call]
                    /\ pc' = [pc EXCEPT ![p] = "returned"]
    /\ UNCHANGED <<storeVars, redisUp, active, rebuildVars, cleanVars>>

\* Where add_item returns to: download_image called by handle_coverart_request
\* goes on to the response, every other caller is done.
AfterAdd(op) == IF op = "request" THEN "req_respond" ELSE "returned"

\* add_item lines 146-151: HGET; a store error goes to the except branch,
\* which logs and returns.
AddRead(p) ==
    /\ p \in active /\ pc[p] = "add_read"
    /\ IF redisUp
       THEN /\ loc' = [loc EXCEPT ![p].old_size = AddOldSize(items, loc[p].key)]
            /\ pc' = [pc EXCEPT ![p] = "add_exec"]
       ELSE /\ loc' = [loc EXCEPT ![p].success =
                          (loc[p].op \in {"download", "request"}
                           /\ download_result(TRUE, FALSE))]
            /\ pc' = [pc EXCEPT ![p] = AfterAdd(loc[p].op)]
    /\ UNCHANGED <<storeVars, redisUp, files, active, rebuildVars, cleanVars>>

\* add_item lines 154-157: the pipeline; on a store error nothing is applied.
AddExec(p) ==
    /\ p \in active /\ pc[p] = "add_exec"
    /\ IF redisUp
       THEN /\ items' = AddPipelineItems(items, loc[p].item)
            /\ total' = AddPipelineTotal(total, loc[p].item, loc[p].old_size)
       ELSE UNCHANGED <<items, total>>
    /\ loc' = [loc EXCEPT ![p].applied = redisUp,
                          ![p].success = (loc[p].op \in {"download", "request"}
                                          /\ download_result(TRUE, redisUp))]
    /\ pc' = [pc EXCEPT ![p] = AfterAdd(loc[p].op)]
    /\ UNCHANGED <<tempItems, tempTotal, redisUp, files, active, rebuildVars, cleanVars>>

\* remove_item lines 166-172: HGET, return None when absent or on error.
CallRemove(p) ==
    /\ p \in active /\ pc[p] = "idle" /\ CounterInRange
    /\ \E key \in Keys :
          LET item_data == IF redisUp THEN RemoveLookup(items, key) ELSE None
          IN /\ loc' = [loc EXCEPT ![p] = [Idle EXCEPT !.op = "remove", !.key = key,
                                              !.item = item_data]]
             /\ pc' = [pc EXCEPT ![p] = IF item_data = None THEN "returned" ELSE "rm_exec"]
    /\ UNCHANGED <<storeVars, redisUp, files, active, rebuildVars, cleanVars>>

\* remove_item lines 175-181: the pipeline HDEL + DECRBY, return item_data.
RemoveExec(p) ==
    /\ p \in active /\ pc[p] = "rm_exec"
    /\ IF redisUp
       THEN /\ items' = RemovePipelineItems(items, loc[p].key)
            /\ total' = RemovePipelineTotal(total, loc[p].item)
            /\ loc' = [loc EXCEPT ![p].result = loc[p].item, ![p].applied = TRUE]
       ELSE /\ UNCHANGED <<items, total>>
            /\ loc' = [loc EXCEPT ![p].result = None]
    /\ pc' = [pc EXCEPT ![p] = "returned"]
    /\ UNCHANGED <<tempItems, tempTotal, redisUp, files, active, rebuildVars, cleanVars>>

\* get_total_bytes(), get_item_count(), get_items_by_type(): one round trip.
CallGetTotalBytes(p) ==
    /\ p \in active /\ pc[p] = "idle"
    /\ loc' = [loc EXCEPT ![p] = [Idle EXCEPT !.op = "get_total_bytes",
                                     !.bytes = get_total_bytes(total, redisUp)]]
    /\ pc' = [pc EXCEPT ![p] = "returned"]
    /\ UNCHANGED <<storeVars, redisUp, files, active, rebuildVars, cleanVars>>

CallGetItemCount(p) ==
    /\ p \in active /\ pc[p] = "idle"
    /\ loc' = [loc EXCEPT ![p] = [Idle EXCEPT !.op = "get_item_count",
                                     !.count = get_item_count(items, redisUp)]]
    /\ pc' = [pc EXCEPT ![p] = "returned"]
    /\ UNCHANGED <<storeVars, redisUp, files, active, rebuildVars, cleanVars>>

CallGetItemsByType(p) ==
    /\ p \in active /\ pc[p] = "idle"
    /\ \E cache_type \in CacheTypes :
          loc' = [loc EXCEPT ![p] = [Idle EXCEPT !.op = "get_items_by_type",
                     !.listed = get_items_by_type(items, redisUp, cache_type)]]
    /\ pc' = [pc EXCEPT ![p] = "returned"]
    /\ UNCHANGED <<storeVars, redisUp, files, active, rebuildVars, cleanVars>>

\* The call returns to its caller.
Return(p) ==
    /\ p \in active /\ pc[p] = "returned"
    /\ pc' = [pc EXCEPT ![p] = "idle"]
    /\ loc' = [loc EXCEPT ![p] = Idle]
    /\ UNCHANGED <<storeVars, redisUp, files, active, rebuildVars, cleanVars>>

\* ------------------------------------------------ handle_coverart_request
\* Line 241: the extensions whose file the existence check looks for, in order.
ProbedExts ==
    <<ExtJpg, <<".", "j", "p", "e", "g">>, ExtPng, <<".", "g", "i", "f">>,
      <<".", "w", "e", "b", "p">>>>

\* Line 264: path_parts.suffix or '.jpg'.
download_extension(suffix) == IF suffix = <<>> THEN ExtJpg ELSE suffix

\* Lines 246 and 274: "/cache/" + cache_path.relative_to(CACHE_DIR) adds a
\* Path to a str, which raises TypeError.
AccelRedirect(cache_path) == [raised |-> TRUE, value |-> <<>>]

\* Lines 243-251: the answer to a hit; the TypeError is outside any try and
\* reaches the error handler of lines 52-55, which answers 500.
HitResponse(cache_path) ==
    IF AccelRedirect(cache_path).raised
    THEN [status |-> 500, cache_status |-> "none"]
    ELSE [status |-> 200, cache_status |-> "HIT"]

\* Lines 269-283: the answer after download_image; the TypeError is caught
\* by the except Exception of line 287, which answers 500.
MissResponse(cache_path, success) ==
    IF ~success THEN [status |-> 502, cache_status |-> "none"]
    ELSE IF AccelRedirect(cache_path).raised
    THEN [status |-> 500, cache_status |-> "none"]
    ELSE [status |-> 200, cache_status |-> "MISS"]

\* The files the existence check of lines 241-243 finds for a key.
ProbeHits(cache_key) ==
    {i \in 1..Len(ProbedExts) :
        get_cache_path(CACHE_TYPE_RELEASE, cache_key, ProbedExts[i]) \in DOMAIN files}

\* New requests are started only while few files are cached.
CacheSmall == Cardinality(DOMAIN files) <= MaxCached

\* Lines 220-254: the MBID is validated, the key built, the cached file
\* looked for under each probed extension.
handle_coverart_request(p, mbid, path, size) ==
    /\ p \in active /\ pc[p] = "idle"
    /\ LET call == [Idle EXCEPT !.op = "request", !.mbid = mbid, !.path = path,
                                !.size = size]
           cache_key == generate_cache_key(mbid, path, size)
           hits == ProbeHits(cache_key)
           first == CHOOSE i \in hits : \A j \in hits : i <= j
           cache_path == get_cache_path(CACHE_TYPE_RELEASE, cache_key, ProbedExts[first])
       IN IF ~validate_mbid(mbid)
          THEN /\ loc' = [loc EXCEPT ![p] = [call EXCEPT !.status = 400]]
               /\ pc' = [pc EXCEPT ![p] = "returned"]
          ELSE IF hits # {}
          THEN /\ loc' = [loc EXCEPT ![p] =
                         [call EXCEPT !.key = cache_key, !.cache_path = cache_path,
                              !.status = HitResponse(cache_path).status,
                              !.cache_status = HitResponse(cache_path).cache_status]]
               /\ pc' = [pc EXCEPT ![p] = "returned"]
          ELSE /\ loc' = [loc EXCEPT ![p] = [call EXCEPT !.key = cache_key]]
               /\ pc' = [pc EXCEPT ![p] = "req_resolve"]
    /\ UNCHANGED <<storeVars, redisUp, files, active, rebuildVars, cleanVars>>

\* A request arrives while the counter is near its range and few files are
\* cached.
HandleRequest(p, mbid, path, size) ==
    /\ CounterInRange /\ CacheSmall
    /\ handle_coverart_request(p, mbid, path, size)

\* The suffixes of the image URLs the upstream redirects to: none, .jpg,
\* .png, .pdf.
UpstreamSuffixes == {<<>>, ExtJpg, ExtPng, <<".", "p", "d", "f">>}

\* resolve_redirect (lines 151-169) and lines 259-266: a HEAD request
\* upstream; a redirect gives the image URL and the extension to write.
ResolveRedirect(p) ==
    /\ p \in active /\ pc[p] = "req_resolve"
    /\ \/ \E suffix \in UpstreamSuffixes :
             /\ loc' = [loc EXCEPT
                   ![p].upstream = @ + 1,
                   ![p].cache_path = get_cache_path(CACHE_TYPE_RELEASE, loc[p].key,
                                                    download_extension(suffix))]
             /\ pc' = [pc EXCEPT ![p] = "req_download"]
       \/ \E status \in {404, 502, 500} :
             /\ loc' = [loc EXCEPT ![p].upstream = @ + 1, ![p].status = status]
             /\ pc' = [pc EXCEPT ![p] = "returned"]
    /\ UNCHANGED <<storeVars, redisUp, files, active, rebuildVars, cleanVars>>

\* download_image (lines 115-127) called at line 269: GET the image; with a
\* 200 answer the file is opened for writing at its final path, which
\* creates it empty or truncates the one that is there; a non-200 answer
\* returns False; an exception of the GET unlinks the path and returns False.
RequestDownload(p) ==
    /\ p \in active /\ pc[p] = "req_download"
    /\ LET cache_path == loc[p].cache_path
       IN \/ /\ files' = HSet(files, cache_path, [size |-> 0, mtime |-> 0])
             /\ loc' = [loc EXCEPT ![p].upstream = @ + 1]
             /\ pc' = [pc EXCEPT ![p] = "req_write"]
          \/ /\ files' = files
             /\ loc' = [loc EXCEPT ![p].upstream = @ + 1, ![p].success = FALSE]
             /\ pc' = [pc EXCEPT ![p] = "req_respond"]
          \/ /\ files' = HDel(files, cache_path)
             /\ loc' = [loc EXCEPT ![p].upstream = @ + 1, ![p].success = FALSE]
             /\ pc' = [pc EXCEPT ![p] = "req_respond"]
    /\ UNCHANGED <<storeVars, redisUp, active, rebuildVars, cleanVars>>

\* download_image lines 128-149: the chunks are written and the file is
\* closed, then add_item is entered; an exception while writing unlinks the
\* file and returns False.
RequestWrite(p) ==
    /\ p \in active /\ pc[p] = "req_write"
    /\ LET cache_path == loc[p].cache_path
       IN \/ \E size \in Sizes :
               /\ files' = HSet(files, cache_path, [size |-> size, mtime |-> 0])
               /\ loc' = [loc EXCEPT
                     ![p].item = CacheItem(CACHE_TYPE_RELEASE, loc[p].mbid, loc[p].key,
                                           cache_path, 0, size)]
               /\ pc' = [pc EXCEPT ![p] = "add_read"]
          \/ /\ files' = HDel(files, cache_path)
             /\ loc' = [loc EXCEPT ![p].success = FALSE]
             /\ pc' = [pc EXCEPT ![p] = "req_respond"]
    /\ UNCHANGED <<storeVars, redisUp, active, rebuildVars, cleanVars>>

\* Lines 271-285: the response after download_image.
Respond(p) ==
    /\ p \in active /\ pc[p] = "req_respond"
    /\ LET r == MissResponse(loc[p].cache_path, loc[p].success)
       IN loc' = [loc EXCEPT ![p].status = r.status, ![p].cache_status = r.cache_status]
    /\ pc' = [pc EXCEPT ![p] = "returned"]
    /\ UNCHANGED <<storeVars, redisUp, files, active, rebuildVars, cleanVars>>

\* The metadata store becomes unreachable / reachable again.
RedisFail ==
    /\ redisUp /\ redisUp' = FALSE
    /\ UNCHANGED <<storeVars, files, procVars, rebuildVars, cleanVars>>

RedisRecover ==
    /\ ~redisUp /\ redisUp' = TRUE
    /\ UNCHANGED <<storeVars, files, procVars, rebuildVars, cleanVars>>

\* ------------------------------------------------------ rebuild pipeline
\* The pipelines that can run: the rescan tool and a worker's startup scan.
Rebuilders == {"rescan", "startup"}

\* for cache_type in [CACHE_TYPE_RELEASE, CACHE_TYPE_RELEASE_GROUP]
ScanOrder == <<CACHE_TYPE_RELEASE, CACHE_TYPE_RELEASE_GROUP>>

RIdle == [files_scanned |-> 0, total_bytes |-> 0, cat |-> 1, visited |-> {},
          item |-> None, old_size |-> 0,
          temp_total_bytes |-> 0, temp_item_count |-> 0,
          result |-> FALSE, raised |-> FALSE,
          dry_run |-> FALSE, interrupted |-> FALSE, skipped |-> FALSE]

\* The files of the current category that rglob has not yet produced.
Remaining(r) ==
    {f \in DOMAIN files :
        f.dir.cache_type = ScanOrder[rloc[r].cat] /\ f \notin rloc[r].visited}

\* The except branch of scan_cache_directory (lines 310-314) is entered.
ScanRaise(r) == rpc' = [rpc EXCEPT ![r] = "scan_cleanup"]

ScanClear_LiveKeys(r) ==
    /\ r \in ractive /\ rpc[r] = "idle"
    /\ rloc' = [rloc EXCEPT ![r] = RIdle]
    /\ items' = NoHash /\ total' = NoKey
    /\ rpc' = [rpc EXCEPT ![r] = "scan_init"]
    /\ UNCHANGED <<tempItems, tempTotal, redisUp, files, procVars, ractive, cleanVars>>

\* Line 241: DEL of both temporary keys.
ScanClear(r) ==
    /\ r \in ractive /\ rpc[r] = "idle"
    /\ rloc' = [rloc EXCEPT ![r] = RIdle]
    /\ IF redisUp
       THEN /\ tempItems' = NoHash /\ tempTotal' = NoKey
            /\ rpc' = [rpc EXCEPT ![r] = "scan_init"]
       ELSE /\ UNCHANGED <<tempItems, tempTotal>>
            /\ ScanRaise(r)
    /\ UNCHANGED <<items, total, redisUp, files, procVars, ractive, cleanVars>>

\* Line 245: SET of the temporary counter to 0.
ScanInit(r) ==
    /\ r \in ractive /\ rpc[r] = "scan_init"
    /\ IF redisUp
       THEN /\ tempTotal' = StrSet(0)
            /\ rpc' = [rpc EXCEPT ![r] = "scan_walk"]
       ELSE /\ UNCHANGED tempTotal
            /\ ScanRaise(r)
    /\ UNCHANGED <<items, total, tempItems, redisUp, files, procVars, ractive, rloc, cleanVars>>

\* Lines 259-286: the next file of the category; its key is the file stem,
\* its MBID the part before the first underscore; a malformed name is
\* skipped, otherwise the CacheItem is built from the file's stat.
ScanVisit(r) ==
    /\ r \in ractive /\ rpc[r] = "scan_walk"
    /\ \E file_path \in Remaining(r) :
          LET cache_key == PathStem(file_path.name)
              mbid == SplitFirst(cache_key)
          IN IF ~validate_mbid(mbid)
             THEN /\ rloc' = [rloc EXCEPT ![r].visited = @ \cup {file_path}]
                  /\ UNCHANGED rpc
             ELSE /\ rloc' = [rloc EXCEPT
                        ![r].visited = @ \cup {file_path},
                        ![r].item = CacheItem(ScanOrder[rloc[r].cat], mbid, cache_key,
                                              file_path, files[file_path].mtime,
                                              files[file_path].size)]
                  /\ rpc' = [rpc EXCEPT ![r] = "scan_add_read"]
    /\ UNCHANGED <<storeVars, redisUp, files, procVars, ractive, cleanVars>>

\* Lines 253-259: the category is exhausted; go to the next one or leave the loop.
ScanNextType(r) ==
    /\ r \in ractive /\ rpc[r] = "scan_walk"
    /\ Remaining(r) = {}
    /\ IF rloc[r].cat < Len(ScanOrder)
       THEN /\ rloc' = [rloc EXCEPT ![r].cat = @ + 1]
            /\ UNCHANGED rpc
       ELSE /\ rpc' = [rpc EXCEPT ![r] = "scan_finish"]
            /\ UNCHANGED rloc
    /\ UNCHANGED <<storeVars, redisUp, files, procVars, ractive, cleanVars>>

\* Lines 290-291: files_scanned and total_bytes after temp_cache_index.add_item.
ScanCounted(l) ==
    [l EXCEPT !.files_scanned = @ + 1,
              !.total_bytes = @ + l.item.size_bytes,
              !.item = None, !.old_size = 0]

\* Line 289, add_item on the temporary index, first round trip (HGET); a
\* store error is swallowed by add_item and the scan goes on.
ScanAddRead(r) ==
    /\ r \in ractive /\ rpc[r] = "scan_add_read"
    /\ IF redisUp
       THEN /\ rloc' = [rloc EXCEPT ![r].old_size =
                           AddOldSize(tempItems, rloc[r].item.cache_key)]
            /\ rpc' = [rpc EXCEPT ![r] = "scan_add_exec"]
       ELSE /\ rloc' = [rloc EXCEPT ![r] = ScanCounted(rloc[r])]
            /\ rpc' = [rpc EXCEPT ![r] = "scan_walk"]
    /\ UNCHANGED <<storeVars, redisUp, files, procVars, ractive, cleanVars>>

\* Line 289, add_item on the temporary index, second round trip (pipeline).
ScanAddExec(r) ==
    /\ r \in ractive /\ rpc[r] = "scan_add_exec"
    /\ IF redisUp
       THEN /\ tempItems' = AddPipelineItems(tempItems, rloc[r].item)
            /\ tempTotal' = AddPipelineTotal(tempTotal, rloc[r].item, rloc[r].old_size)
       ELSE UNCHANGED <<tempItems, tempTotal>>
    /\ rloc' = [rloc EXCEPT ![r] = ScanCounted(rloc[r])]
    /\ rpc' = [rpc EXCEPT ![r] = "scan_walk"]
    /\ UNCHANGED <<items, total, redisUp, files, procVars, ractive, cleanVars>>

\* Lines 305-308: SET of the temporary counter to total_bytes, normal return.
ScanFinish(r) ==
    /\ r \in ractive /\ rpc[r] = "scan_finish"
    /\ IF redisUp
       THEN /\ tempTotal' = StrSet(rloc[r].total_bytes)
            /\ rpc' = [rpc EXCEPT ![r] = "scanned"]
       ELSE /\ UNCHANGED tempTotal
            /\ ScanRaise(r)
    /\ UNCHANGED <<items, total, tempItems, redisUp, files, procVars, ractive, rloc, cleanVars>>

\* Lines 310-314: DEL of the temporary keys, then the exception is re-raised
\* (when the DEL fails too, its exception leaves the function instead).
ScanCleanup(r) ==
    /\ r \in ractive /\ rpc[r] = "scan_cleanup"
    /\ IF redisUp
       THEN tempItems' = NoHash /\ tempTotal' = NoKey
       ELSE UNCHANGED <<tempItems, tempTotal>>
    /\ rloc' = [rloc EXCEPT ![r].raised = TRUE]
    /\ rpc' = [rpc EXCEPT ![r] = "done"]
    /\ UNCHANGED <<items, total, redisUp, files, procVars, ractive, cleanVars>>

\* The except branch of atomic_index_swap (lines 365-372) is entered.
SwapRaise(r) == rpc' = [rpc EXCEPT ![r] = "swap_cleanup"]

\* Lines 330-333: EXISTS of the temporary counter; return False without it.
SwapExists(r) ==
    /\ r \in ractive /\ rpc[r] = "scanned"
    /\ IF redisUp
       THEN IF tempTotal.present
            THEN rpc' = [rpc EXCEPT ![r] = "swap_get"] /\ UNCHANGED rloc
            ELSE /\ rpc' = [rpc EXCEPT ![r] = "done"]
                 /\ rloc' = [rloc EXCEPT ![r].result = FALSE]
       ELSE SwapRaise(r) /\ UNCHANGED rloc
    /\ UNCHANGED <<storeVars, redisUp, files, procVars, ractive, cleanVars>>

\* Line 336: GET of the temporary counter, "0" when it is gone.
SwapGet(r) ==
    /\ r \in ractive /\ rpc[r] = "swap_get"
    /\ IF redisUp
       THEN /\ rloc' = [rloc EXCEPT ![r].temp_total_bytes =
                           IF tempTotal.present THEN tempTotal.val ELSE 0]
            /\ rpc' = [rpc EXCEPT ![r] = "swap_hlen"]
       ELSE SwapRaise(r) /\ UNCHANGED rloc
    /\ UNCHANGED <<storeVars, redisUp, files, procVars, ractive, cleanVars>>

\* Line 337: HLEN of the temporary hash when it exists, else 0.
SwapHlen(r) ==
    /\ r \in ractive /\ rpc[r] = "swap_hlen"
    /\ IF redisUp
       THEN /\ rloc' = [rloc EXCEPT ![r].temp_item_count =
                           IF Exists(tempItems) THEN HLen(tempItems) ELSE 0]
            /\ rpc' = [rpc EXCEPT ![r] = "swap_exec"]
       ELSE SwapRaise(r) /\ UNCHANGED rloc
    /\ UNCHANGED <<storeVars, redisUp, files, procVars, ractive, cleanVars>>

\* Line 346: the counter value the pipeline installs.
SwapSetTotal_Zero(temp_total_bytes) == StrSet(0)
SwapSetTotal(temp_total_bytes) == StrSet(temp_total_bytes)

\* Lines 341-360: the queued commands, run by EXEC one after the other; a
\* RENAME whose source is missing answers with an error and the commands
\* after it still run (MULTI/EXEC does not roll back), execute() then raises.
SwapPipeline(st, temp_total_bytes, temp_item_count) ==
    LET s1 == [st EXCEPT !.items = NoHash]
        s2 == [s1 EXCEPT !.total = NoKey]
        s3 == [s2 EXCEPT !.total = SwapSetTotal(temp_total_bytes)]
        rename_error == temp_item_count > 0 /\ ~Exists(s3.tempItems)
        s4 == IF temp_item_count > 0
              THEN IF rename_error THEN s3
                   ELSE [s3 EXCEPT !.items = s3.tempItems, !.tempItems = NoHash]
              ELSE [s3 EXCEPT !.items = NoHash]
        s5 == [s4 EXCEPT !.tempItems = NoHash]
        s6 == [s5 EXCEPT !.tempTotal = NoKey]
    IN [store |-> s6, error |-> rename_error]

Store == [items |-> items, total |-> total,
          tempItems |-> tempItems, tempTotal |-> tempTotal]

\* Line 360: pipe.execute().
SwapExec(r) ==
    /\ r \in ractive /\ rpc[r] = "swap_exec"
    /\ IF redisUp
       THEN LET out == SwapPipeline(Store, rloc[r].temp_total_bytes,
                                    rloc[r].temp_item_count)
            IN /\ items' = out.store.items
               /\ total' = out.store.total
               /\ tempItems' = out.store.tempItems
               /\ tempTotal' = out.store.tempTotal
               /\ IF out.error
                  THEN SwapRaise(r) /\ UNCHANGED rloc
                  ELSE /\ rpc' = [rpc EXCEPT ![r] = "done"]
                       /\ rloc' = [rloc EXCEPT ![r].result = TRUE]
       ELSE /\ UNCHANGED storeVars
            /\ SwapRaise(r) /\ UNCHANGED rloc
    /\ UNCHANGED <<redisUp, files, procVars, ractive, cleanVars>>

\* Lines 365-372: DEL of the temporary keys (its own failure is passed
\* over), return False.
SwapCleanup(r) ==
    /\ r \in ractive /\ rpc[r] = "swap_cleanup"
    /\ IF redisUp
       THEN tempItems' = NoHash /\ tempTotal' = NoKey
       ELSE UNCHANGED <<tempItems, tempTotal>>
    /\ rloc' = [rloc EXCEPT ![r].result = FALSE]
    /\ rpc' = [rpc EXCEPT ![r] = "done"]
    /\ UNCHANGED <<items, total, redisUp, files, procVars, ractive, cleanVars>>

\* The pipeline's caller is finished with this run.
RebuildReturn(r) ==
    /\ r \in ractive /\ rpc[r] = "done"
    /\ rpc' = [rpc EXCEPT ![r] = "idle"]
    /\ rloc' = [rloc EXCEPT ![r] = RIdle]
    /\ UNCHANGED <<storeVars, redisUp, files, procVars, ractive, cleanVars>>

\* scan_cache.py lines 145-149: with --dry-run the tool returns 0 after the
\* scan, without calling atomic_index_swap and without any call to the store.
ToolDryRun(r) ==
    /\ r \in ractive /\ r = "rescan" /\ rpc[r] = "scanned"
    /\ rloc' = [rloc EXCEPT ![r].dry_run = TRUE]
    /\ rpc' = [rpc EXCEPT ![r] = "done"]
    /\ UNCHANGED <<storeVars, redisUp, files, procVars, ractive, cleanVars>>

\* scan_cache.py lines 169-173: a KeyboardInterrupt inside the try block of
\* main. It is not an Exception, so no except branch of scan_cache_directory,
\* add_item or atomic_index_swap sees it (only the bare except around the
\* swap's own cleanup DEL does); main logs and returns 130.
ToolInterrupt(r) ==
    /\ r \in ractive /\ r = "rescan"
    /\ rpc[r] \in {"scan_init", "scan_walk", "scan_add_read", "scan_add_exec",
                   "scan_finish", "scan_cleanup",
                   "scanned", "swap_get", "swap_hlen", "swap_exec"}
    /\ rloc' = [rloc EXCEPT ![r].interrupted = TRUE]
    /\ rpc' = [rpc EXCEPT ![r] = "done"]
    /\ UNCHANGED <<storeVars, redisUp, files, procVars, ractive, cleanVars>>

\* scan_cache.py lines 145-176: the exit code of main for a finished run.
main_exit_code(l) ==
    IF l.interrupted THEN 130
    ELSE IF l.raised THEN 1
    ELSE IF l.dry_run THEN 0
    ELSE IF l.result THEN 0 ELSE 1

\* ------------------------------------------------------- worker startup
\* The serving process of the worker whose module-level code runs the
\* startup pipeline.
StartupProc == 1

\* startup_cache_scan lines 413-418: exists() decides whether to scan; when
\* the index exists the function returns True without touching the store.
StartupExists(r) ==
    /\ r \in ractive /\ r = "startup" /\ rpc[r] = "boot"
    /\ IF exists(items, total, redisUp)
       THEN /\ rloc' = [rloc EXCEPT ![r] = [RIdle EXCEPT !.result = TRUE, !.skipped = TRUE]]
            /\ rpc' = [rpc EXCEPT ![r] = "done"]
       ELSE /\ rloc' = [rloc EXCEPT ![r] = RIdle]
            /\ rpc' = [rpc EXCEPT ![r] = "idle"]
    /\ UNCHANGED <<storeVars, redisUp, files, procVars, ractive, cleanVars>>

\* cover_art_cache/app.py lines 433-438: sys.exit(1) when startup_cache_scan
\* returned False (its except branch turns a raised scan into False), else the
\* worker goes on to serve requests.
AppStart(r) ==
    /\ r \in ractive /\ r = "startup" /\ rpc[r] = "done"
    /\ IF rloc[r].result
       THEN /\ active' = active \cup {StartupProc}
            /\ rpc' = [rpc EXCEPT ![r] = "serving"]
       ELSE /\ active' = active
            /\ rpc' = [rpc EXCEPT ![r] = "exited"]
    /\ UNCHANGED <<storeVars, redisUp, files, pc, loc, ractive, rloc, cleanVars>>

\* scan_cache_at_startup (src/app.py) line 226: DEL of the live keys, whatever
\* they hold; a store error goes to the except branch of line 278, which logs
\* and returns.
LegacyClear(r) ==
    /\ r \in ractive /\ r = "startup" /\ rpc[r] = "boot"
    /\ rloc' = [rloc EXCEPT ![r] = [RIdle EXCEPT !.raised = ~redisUp]]
    /\ IF redisUp
       THEN /\ items' = NoHash /\ total' = NoKey
            /\ rpc' = [rpc EXCEPT ![r] = "legacy_walk"]
       ELSE /\ UNCHANGED <<items, total>>
            /\ rpc' = [rpc EXCEPT ![r] = "done"]
    /\ UNCHANGED <<tempItems, tempTotal, redisUp, files, procVars, ractive, cleanVars>>

\* src/app.py lines 236-263: the next file of the category, as in
\* scan_cache_directory.
LegacyVisit(r) ==
    /\ r \in ractive /\ rpc[r] = "legacy_walk"
    /\ \E file_path \in Remaining(r) :
          LET cache_key == PathStem(file_path.name)
              mbid == SplitFirst(cache_key)
          IN IF ~validate_mbid(mbid)
             THEN /\ rloc' = [rloc EXCEPT ![r].visited = @ \cup {file_path}]
                  /\ UNCHANGED rpc
             ELSE /\ rloc' = [rloc EXCEPT
                        ![r].visited = @ \cup {file_path},
                        ![r].item = CacheItem(ScanOrder[rloc[r].cat], mbid, cache_key,
                                              file_path, files[file_path].mtime,
                                              files[file_path].size)]
                  /\ rpc' = [rpc EXCEPT ![r] = "legacy_add_read"]
    /\ UNCHANGED <<storeVars, redisUp, files, procVars, ractive, cleanVars>>

\* src/app.py lines 230-236 and 273-276: the category is exhausted; after the
\* last one the function logs get_total_bytes() and returns (result: the scan
\* ran to its end).
LegacyNextType(r) ==
    /\ r \in ractive /\ rpc[r] = "legacy_walk"
    /\ Remaining(r) = {}
    /\ IF rloc[r].cat < Len(ScanOrder)
       THEN /\ rloc' = [rloc EXCEPT ![r].cat = @ + 1]
            /\ UNCHANGED rpc
       ELSE /\ rpc' = [rpc EXCEPT ![r] = "done"]
            /\ rloc' = [rloc EXCEPT ![r].result = TRUE]
    /\ UNCHANGED <<storeVars, redisUp, files, procVars, ractive, cleanVars>>

\* src/app.py line 266, cache_index.add_item on the live index, first round
\* trip (src/cache.py line 96).
LegacyAddRead(r) ==
    /\ r \in ractive /\ rpc[r] = "legacy_add_read"
    /\ IF redisUp
       THEN /\ rloc' = [rloc EXCEPT ![r].old_size =
                           AddOldSize(items, rloc[r].item.cache_key)]
            /\ rpc' = [rpc EXCEPT ![r] = "legacy_add_exec"]
       ELSE /\ rloc' = [rloc EXCEPT ![r].files_scanned = @ + 1,
                                    ![r].item = None, ![r].old_size = 0]
            /\ rpc' = [rpc EXCEPT ![r] = "legacy_walk"]
    /\ UNCHANGED <<storeVars, redisUp, files, procVars, ractive, cleanVars>>

\* src/app.py lines 266-267, second round trip (src/cache.py lines 103-106).
LegacyAddExec(r) ==
    /\ r \in ractive /\ rpc[r] = "legacy_add_exec"
    /\ IF redisUp
       THEN /\ items' = AddPipelineItems(items, rloc[r].item)
            /\ total' = AddPipelineTotal(total, rloc[r].item, rloc[r].old_size)
       ELSE UNCHANGED <<items, total>>
    /\ rloc' = [rloc EXCEPT ![r].files_scanned = @ + 1,
                            ![r].item = None, ![r].old_size = 0]
    /\ rpc' = [rpc EXCEPT ![r] = "legacy_walk"]
    /\ UNCHANGED <<tempItems, tempTotal, redisUp, files, procVars, ractive, cleanVars>>

\* src/app.py lines 612-617: scan_cache_at_startup returns nothing and the
\* worker goes on to serve requests.
LegacyAppStart(r) ==
    /\ r \in ractive /\ r = "startup" /\ rpc[r] = "done"
    /\ active' = active \cup {StartupProc}
    /\ rpc' = [rpc EXCEPT ![r] = "serving"]
    /\ UNCHANGED <<storeVars, redisUp, files, pc, loc, ractive, rloc, cleanVars>>

ScanPcs == {"scan_init", "scan_walk", "scan_add_read", "scan_add_exec",
            "scan_finish", "scan_cleanup"}
SwapPcs == {"scanned", "swap_get", "swap_hlen", "swap_exec", "swap_cleanup"}

\* ------------------------------------------------------- cleanup service
Cleaners == 1..NumCleaners

\* Sizes are in bytes. COVER_ART_CACHE_MAX_SIZE_MB and
\* COVER_ART_CACHE_CLEAN_TO_MB are read from the environment
\* (cover_art_cache/cleaner_service.py lines 30-31); the values here keep
\* every product below 2^31.
MB == 1024 * 1024
MAX_SIZE_MB == 10
CLEAN_TO_MB == 9

\* Locals of one cleanup_cache call (both services): the usage it read, what
\* it has to free, the candidates (heap: the filesystem service; oldest_items,
\* item: the index service), what it freed (popped: the candidates the
\* deletion loop has taken so far), and how the call went (outcome; failed:
\* some deletion raised; raised: an exception left the call).
EIdle == [current_size |-> 0, bytes_to_free |-> 0, target_accumulated |-> 0,
          visited |-> {}, heap |-> {}, accumulated_size |-> 0, scanned_count |-> 0,
          oldest_items |-> <<>>, item |-> None, item_size |-> 0,
          freed_bytes |-> 0, removed_count |-> 0, popped |-> {},
          in_except |-> FALSE,
          outcome |-> "none", failed |-> FALSE, raised |-> FALSE]

InitCleaners ==
    /\ lock = 0
    /\ epc = [e \in Cleaners |-> "idle"]
    /\ eloc = [e \in Cleaners |-> EIdle]
    /\ running = [e \in Cleaners |-> TRUE]

\* get_cache_size (lines 48-65): the sum of st_size over the files of the tree.
RECURSIVE get_cache_size(_)
get_cache_size(t) ==
    IF DOMAIN t = {} THEN 0
    ELSE LET f == CHOOSE x \in DOMAIN t : TRUE
         IN t[f].size + get_cache_size(HDel(t, f))

\* A heap entry (-mtime, file_path, file_size), kept with its mtime.
HeapEntry(t, file_path) ==
    [mtime |-> t[file_path].mtime, path |-> file_path, size |-> t[file_path].size]

\* files_to_delete[0]: the entry with the smallest -mtime, the newest.
HeapTop(heap) == CHOOSE x \in heap : \A y \in heap : y.mtime <= x.mtime

\* heappop(min_heap): the entry with the smallest mtime, the oldest.
HeapOldest_Newest(heap) == CHOOSE x \in heap : \A y \in heap : y.mtime <= x.mtime
HeapOldest(heap) == CHOOSE x \in heap : \A y \in heap : x.mtime <= y.mtime

\* Lines 76-78: cleanup is needed unless the size is below the maximum.
CleanupNeeded(cache_size_bytes) == ~(cache_size_bytes < MAX_SIZE_MB * MB)

\* Lines 83-84 and 95: bytes_to_free and int(bytes_to_free * 1.2).
BytesToFree(cache_size_bytes) == cache_size_bytes - CLEAN_TO_MB * MB
TargetAccumulated(bytes_to_free) == (bytes_to_free * 12) \div 10

\* Lines 108-118: one visited file against the heap.
HeapAdmit_KeepsRemovedSize(l, entry) ==
    IF l.accumulated_size < l.target_accumulated
    THEN [l EXCEPT !.heap = @ \cup {entry},
                   !.accumulated_size = @ + entry.size]
    ELSE IF l.heap # {} /\ entry.mtime < HeapTop(l.heap).mtime
         THEN [l EXCEPT !.heap = (@ \ {HeapTop(l.heap)}) \cup {entry},
                        !.accumulated_size = @ + entry.size]
         ELSE l
HeapAdmit(l, entry) ==
    IF l.accumulated_size < l.target_accumulated
    THEN [l EXCEPT !.heap = @ \cup {entry},
                   !.accumulated_size = @ + entry.size]
    ELSE IF l.heap # {} /\ entry.mtime < HeapTop(l.heap).mtime
         THEN [l EXCEPT !.heap = (@ \ {HeapTop(l.heap)}) \cup {entry},
                        !.accumulated_size = @ - HeapTop(l.heap).size + entry.size]
         ELSE l

\* Lines 69-95: the size check; return when below the maximum.
CleanCheck(e) ==
    /\ epc[e] = "idle" /\ running[e]
    /\ LET cache_size_bytes == get_cache_size(files)
       IN IF CleanupNeeded(cache_size_bytes)
          THEN /\ eloc' = [eloc EXCEPT ![e] =
                     [EIdle EXCEPT !.current_size = cache_size_bytes,
                                   !.bytes_to_free = BytesToFree(cache_size_bytes),
                                   !.target_accumulated =
                                       TargetAccumulated(BytesToFree(cache_size_bytes))]]
               /\ epc' = [epc EXCEPT ![e] = "clean_scan"]
          ELSE /\ eloc' = [eloc EXCEPT ![e] =
                     [EIdle EXCEPT !.current_size = cache_size_bytes,
                                   !.outcome = "below"]]
               /\ epc' = [epc EXCEPT ![e] = "done"]
    /\ UNCHANGED <<storeVars, redisUp, files, procVars, rebuildVars, lock, running>>

\* Lines 100-126: rglob hands over the next file, in any order.
CleanVisit(e) ==
    /\ epc[e] = "clean_scan"
    /\ \E file_path \in (DOMAIN files) \ eloc[e].visited :
          eloc' = [eloc EXCEPT ![e] =
                     [HeapAdmit(eloc[e], HeapEntry(files, file_path))
                        EXCEPT !.visited = @ \cup {file_path},
                               !.scanned_count = @ + 1]]
    /\ UNCHANGED <<storeVars, redisUp, files, procVars, rebuildVars, lock, epc, running>>

\* Lines 128-142: the walk is over; the candidates become the min-heap.
CleanScanEnd(e) ==
    /\ epc[e] = "clean_scan"
    /\ (DOMAIN files) \ eloc[e].visited = {}
    /\ epc' = [epc EXCEPT ![e] = "clean_delete"]
    /\ UNCHANGED <<storeVars, redisUp, files, procVars, rebuildVars, lock, eloc, running>>

\* Lines 143-155: pop the oldest candidate and unlink it; an unlink that
\* raises (file gone, permission) is logged and the loop goes on.
CleanDelete(e) ==
    /\ epc[e] = "clean_delete"
    /\ eloc[e].heap # {} /\ eloc[e].freed_bytes < eloc[e].bytes_to_free
    /\ LET c == HeapOldest(eloc[e].heap)
       IN \E unlinked \in {ok \in BOOLEAN : ok => c.path \in DOMAIN files} :
             IF unlinked
             THEN /\ files' = HDel(files, c.path)
                  /\ eloc' = [eloc EXCEPT ![e].heap = @ \ {c},
                                          ![e].popped = @ \cup {c},
                                          ![e].freed_bytes = @ + c.size,
                                          ![e].removed_count = @ + 1]
             ELSE /\ files' = files
                  /\ eloc' = [eloc EXCEPT ![e].heap = @ \ {c},
                                          ![e].popped = @ \cup {c},
                                          ![e].failed = TRUE]
    /\ UNCHANGED <<storeVars, redisUp, procVars, rebuildVars, lock, epc, running>>

\* Lines 143 and 157-162: the loop ends; the final size is read and logged.
CleanFinal(e) ==
    /\ epc[e] = "clean_delete"
    /\ ~(eloc[e].heap # {} /\ eloc[e].freed_bytes < eloc[e].bytes_to_free)
    /\ eloc' = [eloc EXCEPT ![e].outcome = "cleaned",
                            ![e].current_size = get_cache_size(files)]
    /\ epc' = [epc EXCEPT ![e] = "done"]
    /\ UNCHANGED <<storeVars, redisUp, files, procVars, rebuildVars, lock, running>>

\* run, lines 172-182: the cycle is over; the next one starts after the sleep.
CleanReturn(e) ==
    /\ epc[e] = "done"
    /\ epc' = [epc EXCEPT ![e] = "idle"]
    /\ eloc' = [eloc EXCEPT ![e] = EIdle]
    /\ UNCHANGED <<storeVars, redisUp, files, procVars, rebuildVars, lock, running>>

\* _signal_handler (lines 43-46): SIGTERM or SIGINT arrives, at any position
\* of the service.
Signal(e) ==
    /\ running[e] /\ epc[e] # "stopped"
    /\ running' = [running EXCEPT ![e] = FALSE]
    /\ UNCHANGED <<storeVars, redisUp, files, procVars, rebuildVars, lock, epc, eloc>>

\* run, line 172 and line 184: the while condition is false, the loop ends.
CleanStop(e) ==
    /\ epc[e] = "idle" /\ ~running[e]
    /\ epc' = [epc EXCEPT ![e] = "stopped"]
    /\ UNCHANGED <<storeVars, redisUp, files, procVars, rebuildVars, lock, eloc, running>>

\* ------------------------------------- cleanup service of src/cleaner_service.py
\* COVER_ART_CACHE_MAX_SIZE is read from the environment (line 29), in MB;
\* CLEANUP_THRESHOLD 0.95 and CLEANUP_TARGET 0.9 (lines 31-32) are kept in
\* percent.
COVER_ART_CACHE_MAX_SIZE == 10
MAX_CACHE_SIZE == COVER_ART_CACHE_MAX_SIZE * MB
CLEANUP_THRESHOLD == 95
CLEANUP_TARGET == 90
OLDEST_COUNT == 1000

\* Lines 138 and 157: int(MAX_CACHE_SIZE * CLEANUP_THRESHOLD) and
\* int(MAX_CACHE_SIZE * CLEANUP_TARGET).
cleanup_threshold_size == (MAX_CACHE_SIZE * CLEANUP_THRESHOLD) \div 100
target_size == (MAX_CACHE_SIZE * CLEANUP_TARGET) \div 100

\* Lines 140 and 152: the cycle goes on unless the size is at or below the
\* threshold.
LegacyCleanupNeeded_Always(current_size) == TRUE
LegacyCleanupNeeded(current_size) == ~(current_size <= cleanup_threshold_size)

\* get_oldest_items (lines 73-94): the entries sorted by downloaded_at, the
\* first count of them; entries of equal age in either order; nothing on a
\* store error.
RECURSIVE OldestFirst(_)
OldestFirst(S) ==
    IF S = {} THEN {<<>>}
    ELSE UNION {{<<x>> \o rest : rest \in OldestFirst(S \ {x})} :
                   x \in {y \in S : \A z \in S : y.downloaded_at <= z.downloaded_at}}

get_oldest_items(h, up, count) ==
    IF up
    THEN {SubSeq(sorted, 1, IF Len(sorted) < count THEN Len(sorted) ELSE count) :
             sorted \in OldestFirst({h[k] : k \in DOMAIN h})}
    ELSE {<<>>}

\* acquire_cleanup_lock (lines 96-102): SET NX EX; False when the key is
\* there or the store does not answer.
acquire_cleanup_lock(l, e, up) ==
    IF up /\ l = 0 THEN [lock |-> e, acquired |-> TRUE]
                   ELSE [lock |-> l, acquired |-> FALSE]

\* release_cleanup_lock (lines 104-109): DEL of the key, whoever set it.
release_cleanup_lock(l, e, up) == IF up THEN 0 ELSE l

\* Lines 145-149: where cleanup_cache goes after the acquire.
AfterAcquire_Finally(acquired) == IF acquired THEN "legacy_recheck" ELSE "legacy_release"
AfterAcquire(acquired) == IF acquired THEN "legacy_recheck" ELSE "done"

\* Lines 137-142: the first size check.
LegacyCleanCheck(e) ==
    /\ epc[e] = "idle" /\ running[e]
    /\ LET current_size == get_total_bytes(total, redisUp)
       IN IF LegacyCleanupNeeded(current_size)
          THEN /\ eloc' = [eloc EXCEPT ![e] = [EIdle EXCEPT !.current_size = current_size]]
               /\ epc' = [epc EXCEPT ![e] = "legacy_acquire"]
          ELSE /\ eloc' = [eloc EXCEPT ![e] = [EIdle EXCEPT !.current_size = current_size,
                                                           !.outcome = "below"]]
               /\ epc' = [epc EXCEPT ![e] = "done"]
    /\ UNCHANGED <<storeVars, redisUp, files, procVars, rebuildVars, lock, running>>

\* Lines 145-147: the acquire; without the lock the cycle is skipped.
LegacyAcquire(e) ==
    /\ epc[e] = "legacy_acquire"
    /\ LET got == acquire_cleanup_lock(lock, e, redisUp)
       IN /\ lock' = got.lock
          /\ epc' = [epc EXCEPT ![e] = AfterAcquire(got.acquired)]
          /\ eloc' = [eloc EXCEPT ![e].outcome =
                         IF got.acquired THEN "none" ELSE "skipped"]
    /\ UNCHANGED <<storeVars, redisUp, files, procVars, rebuildVars, running>>

\* Lines 150-158: the size is read again under the lock.
AfterRecheck_Return(needed) == IF needed THEN "legacy_select" ELSE "done"
\* Lines 152-154: the return inside the try leaves through the finally branch.
AfterRecheck(needed) == IF needed THEN "legacy_select" ELSE "legacy_release"

LegacyRecheck(e) ==
    /\ epc[e] = "legacy_recheck"
    /\ LET current_size == get_total_bytes(total, redisUp)
           needed == LegacyCleanupNeeded(current_size)
       IN /\ eloc' = [eloc EXCEPT
                 ![e].current_size = current_size,
                 ![e].bytes_to_free = IF needed THEN current_size - target_size ELSE @,
                 ![e].outcome = IF needed THEN @ ELSE "below"]
          /\ epc' = [epc EXCEPT ![e] = AfterRecheck(needed)]
    /\ UNCHANGED <<storeVars, redisUp, files, procVars, rebuildVars, lock, running>>

\* Line 164: get_oldest_items(1000).
LegacySelect(e) ==
    /\ epc[e] = "legacy_select"
    /\ \E oldest_items \in get_oldest_items(items, redisUp, OLDEST_COUNT) :
          eloc' = [eloc EXCEPT ![e].oldest_items = oldest_items]
    /\ epc' = [epc EXCEPT ![e] = "legacy_loop"]
    /\ UNCHANGED <<storeVars, redisUp, files, procVars, rebuildVars, lock, running>>

\* Lines 169-182: the next item; its file is unlinked when it exists; an
\* unlink that raises goes to the except branch of line 190.
LegacyUnlink(e) ==
    /\ epc[e] = "legacy_loop"
    /\ eloc[e].oldest_items # <<>> /\ ~(eloc[e].freed_bytes >= eloc[e].bytes_to_free)
    /\ LET item_data == Head(eloc[e].oldest_items)
           file_path == item_data.file_path
           entry == [mtime |-> item_data.downloaded_at, path |-> file_path,
                     size |-> item_data.size_bytes]
       IN \E unlinked \in {ok \in BOOLEAN : file_path \notin DOMAIN files => ok} :
             /\ files' = IF unlinked THEN HDel(files, file_path) ELSE files
             /\ eloc' = [eloc EXCEPT ![e].oldest_items = Tail(@),
                                     ![e].item = item_data,
                                     ![e].popped = @ \cup {entry},
                                     ![e].in_except = ~unlinked,
                                     ![e].failed = @ \/ ~unlinked]
    /\ epc' = [epc EXCEPT ![e] = "legacy_rm_read"]
    /\ UNCHANGED <<storeVars, redisUp, procVars, rebuildVars, lock, running>>

\* remove_cache_item lines 113-120: HGET; 0 when absent or on a store error.
LegacyRmRead(e) ==
    /\ epc[e] = "legacy_rm_read"
    /\ LET found == IF redisUp THEN RemoveLookup(items, eloc[e].item.cache_key) ELSE None
       IN IF found = None
          THEN /\ eloc' = [eloc EXCEPT ![e].item_size = 0, ![e].item = None,
                                       ![e].in_except = FALSE]
               /\ epc' = [epc EXCEPT ![e] = "legacy_loop"]
          ELSE /\ eloc' = [eloc EXCEPT ![e].item_size = found.size_bytes,
                                       ![e].item = found]
               /\ epc' = [epc EXCEPT ![e] = "legacy_rm_exec"]
    /\ UNCHANGED <<storeVars, redisUp, files, procVars, rebuildVars, lock, running>>

\* remove_cache_item lines 122-129 and cleanup_cache lines 185-193: the
\* pipeline HDEL + DECRBY; the size counts as freed outside the except branch.
LegacyRmExec(e) ==
    /\ epc[e] = "legacy_rm_exec"
    /\ IF redisUp
       THEN /\ items' = RemovePipelineItems(items, eloc[e].item.cache_key)
            /\ total' = RemovePipelineTotal(total, eloc[e].item)
            /\ eloc' = [eloc EXCEPT
                  ![e].freed_bytes =
                      IF ~eloc[e].in_except /\ eloc[e].item_size > 0
                      THEN @ + eloc[e].item_size ELSE @,
                  ![e].removed_count =
                      IF ~eloc[e].in_except /\ eloc[e].item_size > 0 THEN @ + 1 ELSE @,
                  ![e].item = None, ![e].item_size = 0, ![e].in_except = FALSE]
       ELSE /\ UNCHANGED <<items, total>>
            /\ eloc' = [eloc EXCEPT ![e].item = None, ![e].item_size = 0,
                                    ![e].in_except = FALSE]
    /\ epc' = [epc EXCEPT ![e] = "legacy_loop"]
    /\ UNCHANGED <<tempItems, tempTotal, redisUp, files, procVars, rebuildVars, lock, running>>

\* Lines 169-171 and 195-197: the loop ends; the final size is read and logged.
LegacyLoopEnd(e) ==
    /\ epc[e] = "legacy_loop"
    /\ eloc[e].oldest_items = <<>> \/ eloc[e].freed_bytes >= eloc[e].bytes_to_free
    /\ eloc' = [eloc EXCEPT ![e].outcome = "cleaned",
                            ![e].current_size = get_total_bytes(total, redisUp)]
    /\ epc' = [epc EXCEPT ![e] = "legacy_release"]
    /\ UNCHANGED <<storeVars, redisUp, files, procVars, rebuildVars, lock, running>>

\* Lines 199-200: the finally branch releases the lock.
LegacyRelease(e) ==
    /\ epc[e] = "legacy_release"
    /\ lock' = release_cleanup_lock(lock, e, redisUp)
    /\ epc' = [epc EXCEPT ![e] = "done"]
    /\ UNCHANGED <<storeVars, redisUp, files, procVars, rebuildVars, eloc, running>>

\* The expiry set by ex=300 at line 99 passes: the store drops the key.
LockExpire ==
    /\ lock # 0
    /\ lock' = 0
    /\ UNCHANGED <<storeVars, redisUp, files, procVars, rebuildVars, epc, eloc, running>>

\* The positions between the acquire and the release.
WorkPcs == {"legacy_recheck", "legacy_select", "legacy_loop", "legacy_rm_read",
            "legacy_rm_exec"}

\* An exception leaves the try block of lines 149-197: the finally branch of
\* line 199 runs next, and run() (lines 211-214) logs the error.
LegacyRaise(e) ==
    /\ epc[e] \in WorkPcs
    /\ eloc' = [eloc EXCEPT ![e].raised = TRUE, ![e].outcome = "raised"]
    /\ epc' = [epc EXCEPT ![e] = "legacy_release"]
    /\ UNCHANGED <<storeVars, redisUp, files, procVars, rebuildVars, lock, running>>

\* The process of a service is killed between its acquire and its release:
\* nothing of cleanup_cache runs any more, the finally branch included.
LegacyCrash(e) ==
    /\ epc[e] \in WorkPcs \cup {"legacy_release"}
    /\ epc' = [epc EXCEPT ![e] = "crashed"]
    /\ UNCHANGED <<storeVars, redisUp, files, procVars, rebuildVars, lock, eloc, running>>


LockedPcs == {"legacy_recheck", "legacy_select", "legacy_loop", "legacy_rm_read",
              "legacy_rm_exec", "legacy_release"}

\* ------------------------------------------------------------ cache trees
BadMbid == [n \in 1..36 |-> IF n \in {9, 14, 19, 24} THEN "-" ELSE "g"]

\* Names a cache tree can hold: every key under both categories and both
\* extensions, and one file whose leading name component is not an MBID.
TreePaths ==
    {get_cache_path(ct, k, e) : ct \in CacheTypes, k \in Keys, e \in {ExtJpg, ExtPng}}
      \cup {get_cache_path(CACHE_TYPE_RELEASE, generate_cache_key(BadMbid, Front, <<>>), ExtJpg)}

\* Two files that share a stem across the categories.
TwinPaths ==
    {get_cache_path(ct, generate_cache_key(Mbid(1), Front, <<>>), ExtJpg) : ct \in CacheTypes}

\* One file per key, all in the release category: no two share a stem.
PairPaths == {get_cache_path(CACHE_TYPE_RELEASE, k, ExtJpg) : k \in Keys}

\* The trees with at most n files over the given paths.
Trees(paths, n) ==
    UNION {[S -> [size : Sizes, mtime : {0}]] :
              S \in {T \in SUBSET paths : Cardinality(T) <= n}}

\* The keys and paths of a tree handed to the cleanup service: one MBID, one
\* thumbnail size per file.
EvictKeys ==
    {generate_cache_key(Mbid(1), Front, <<HexDigits[7 + i]>>) : i \in 1..MaxEvictFiles}
EvictPaths == {get_cache_path(CACHE_TYPE_RELEASE, k, ExtJpg) : k \in EvictKeys}

\* File sizes of such a tree, in bytes: half a megabyte and nine megabytes.
EvictSizes == {MB \div 2, 9 * MB}

\* The trees over the given paths with sizes from EvictSizes and pairwise
\* different modification times.
AgedTrees(paths) ==
    {t \in UNION {[S -> [size : EvictSizes, mtime : 1..MaxEvictFiles]] : S \in SUBSET paths} :
        \A f, g \in DOMAIN t : t[f].mtime = t[g].mtime => f = g}

\* The trees over EvictPaths whose i-th file was written i-th.
OrderedTrees ==
    {t \in AgedTrees(EvictPaths) :
        \A i \in 1..MaxEvictFiles :
            LET f == get_cache_path(CACHE_TYPE_RELEASE,
                        generate_cache_key(Mbid(1), Front, <<HexDigits[7 + i]>>), ExtJpg)
            IN f \in DOMAIN t => t[f].mtime = i}

\* The live entries map that matches a tree: one entry per file.
IndexOf(t) ==
    [k \in {PathStem(f.name) : f \in DOMAIN t} |->
        LET f == CHOOSE g \in DOMAIN t : PathStem(g.name) = k
        IN CacheItem(f.dir.cache_type, SplitFirst(k), k, f, t[f].mtime, t[f].size)]

\* ---------------------------------------------------------- specifications
InitStore ==
    /\ items = NoHash /\ total = NoKey
    /\ tempItems = NoHash /\ tempTotal = NoKey
    /\ redisUp = TRUE

InitProcs ==
    /\ pc = [p \in Procs |-> "idle"]
    /\ loc = [p \in Procs |-> Idle]
    /\ rpc = [r \in Rebuilders |-> "idle"]
    /\ rloc = [r \in Rebuilders |-> RIdle]
    /\ InitCleaners

\* One client calling the index, one call at a time, over a store that can
\* become unreachable.
InitSeq == InitStore /\ InitProcs /\ files = <<>> /\ active = {1} /\ ractive = {}

NextSeq ==
    \/ \E p \in Procs : CallAdd(p)
    \/ \E p \in Procs : Download(p)
    \/ \E p \in Procs : AddRead(p)
    \/ \E p \in Procs : AddExec(p)
    \/ \E p \in Procs : CallRemove(p)
    \/ \E p \in Procs : RemoveExec(p)
    \/ \E p \in Procs : CallGetTotalBytes(p)
    \/ \E p \in Procs : CallGetItemCount(p)
    \/ \E p \in Procs : CallGetItemsByType(p)
    \/ \E p \in Procs : Return(p)
    \/ RedisFail
    \/ RedisRecover

SpecSeq == InitSeq /\ [][NextSeq]_vars

\* Several serving processes calling add_item / remove_item concurrently,
\* every round trip to the store being one step.
Init == InitStore /\ InitProcs /\ files = <<>> /\ active = Procs /\ ractive = {}

Next ==
    \/ \E p \in Procs : CallAdd(p)
    \/ \E p \in Procs : AddRead(p)
    \/ \E p \in Procs : AddExec(p)
    \/ \E p \in Procs : CallRemove(p)
    \/ \E p \in Procs : RemoveExec(p)
    \/ \E p \in Procs : Return(p)

Spec == Init /\ [][Next]_vars

\* Several serving processes calling add_item / remove_item concurrently
\* over a store that can become unreachable, no call being started on a key
\* that a call of another process in flight is working on.
InFlightKeys(p) ==
    {loc[q].key : q \in {x \in active \ {p} : pc[x] \notin {"idle", "returned"}}}

NextDistinct ==
    \/ \E p \in Procs : CallAdd(p) /\ loc'[p].key \notin InFlightKeys(p)
    \/ \E p \in Procs : AddRead(p)
    \/ \E p \in Procs : AddExec(p)
    \/ \E p \in Procs : CallRemove(p) /\ loc'[p].key \notin InFlightKeys(p)
    \/ \E p \in Procs : RemoveExec(p)
    \/ \E p \in Procs : Return(p)
    \/ RedisFail
    \/ RedisRecover

SpecDistinct == Init /\ [][NextDistinct]_vars

\* The steps of scan_cache_directory and atomic_index_swap that a pipeline
\* takes while the store answers.
ScanStep(r) ==
    \/ ScanClear(r)
    \/ ScanInit(r)
    \/ ScanVisit(r)
    \/ ScanNextType(r)
    \/ ScanAddRead(r)
    \/ ScanAddExec(r)
    \/ ScanFinish(r)

SwapStep(r) ==
    \/ SwapExists(r)
    \/ SwapGet(r)
    \/ SwapHlen(r)
    \/ SwapExec(r)

\* The rescan tool alone over a cache tree: scan_cache_directory, then
\* atomic_index_swap, with no other process and a reachable store.
InitScan ==
    /\ InitStore /\ InitProcs
    /\ files \in Trees(TreePaths, MaxFiles)
    /\ active = {} /\ ractive = {"rescan"}

NextScan ==
    \/ \E r \in Rebuilders : ScanStep(r)
    \/ \E r \in Rebuilders : SwapStep(r)
    \/ \E r \in Rebuilders : RebuildReturn(r)

SpecScan == InitScan /\ [][NextScan]_vars

\* The rescan tool alone over a cache tree that holds a file whose leading
\* name component is not an MBID, next to well-formed files.
MixedPaths ==
    {get_cache_path(CACHE_TYPE_RELEASE, generate_cache_key(BadMbid, Front, <<>>), ExtJpg)}
      \cup {get_cache_path(CACHE_TYPE_RELEASE, k, ExtJpg) : k \in Keys}
      \cup {get_cache_path(CACHE_TYPE_RELEASE, generate_cache_key(Mbid(1), Front, <<>>), ExtPng)}

InitMixed ==
    /\ InitStore /\ InitProcs
    /\ files \in Trees(MixedPaths, MaxMixedFiles)
    /\ \E f \in DOMAIN files : ~validate_mbid(SplitFirst(PathStem(f.name)))
    /\ active = {} /\ ractive = {"rescan"}

SpecMixed == InitMixed /\ [][NextScan]_vars

\* The rescan tool running against a live service: one serving process
\* calling add_item / remove_item while the pipeline runs.
InitRebuild ==
    /\ InitStore /\ InitProcs
    /\ files \in Trees(TwinPaths, 2)
    /\ active = {1} /\ ractive = {"rescan"}

NextRebuild ==
    \/ \E r \in Rebuilders : ScanStep(r)
    \/ \E r \in Rebuilders : SwapStep(r)
    \/ \E r \in Rebuilders : RebuildReturn(r)
    \/ \E p \in Procs : CallAdd(p)
    \/ \E p \in Procs : AddRead(p)
    \/ \E p \in Procs : AddExec(p)
    \/ \E p \in Procs : CallRemove(p)
    \/ \E p \in Procs : RemoveExec(p)
    \/ \E p \in Procs : Return(p)

SpecRebuild == InitRebuild /\ [][NextRebuild]_vars

\* One run of the rescan tool next to a serving process that downloads
\* images and adds them to the live index.
NextLiveRebuild ==
    \/ \E r \in Rebuilders : ScanStep(r)
    \/ \E r \in Rebuilders : SwapStep(r)
    \/ \E p \in Procs : Download(p)
    \/ \E p \in Procs : AddRead(p)
    \/ \E p \in Procs : AddExec(p)
    \/ \E p \in Procs : Return(p)

InitLiveRebuild ==
    /\ InitStore /\ InitProcs
    /\ files \in Trees(PairPaths, 1)
    /\ active = {1} /\ ractive = {"rescan"}

SpecLiveRebuild == InitLiveRebuild /\ [][NextLiveRebuild]_vars

\* Two rebuild pipelines at once (the rescan tool during a worker's startup
\* scan), every round trip to the store being one step.
InitRebuild2 ==
    /\ InitStore /\ InitProcs
    /\ files \in Trees(PairPaths, 2)
    /\ active = {} /\ ractive = Rebuilders

NextRebuild2 ==
    \/ \E r \in Rebuilders : ScanStep(r)
    \/ \E r \in Rebuilders : SwapStep(r)
    \/ \E r \in Rebuilders : SwapCleanup(r)
    \/ \E r \in Rebuilders : RebuildReturn(r)

SpecRebuild2 == InitRebuild2 /\ [][NextRebuild2]_vars

\* The rescan tool alone, run after run, over a store that can become
\* unreachable at any round trip.
InitFaulty ==
    /\ InitStore /\ InitProcs
    /\ files \in Trees(TwinPaths, 2)
    /\ active = {} /\ ractive = {"rescan"}

NextFaulty ==
    \/ \E r \in Rebuilders : ScanStep(r)
    \/ \E r \in Rebuilders : ScanCleanup(r)
    \/ \E r \in Rebuilders : SwapStep(r)
    \/ \E r \in Rebuilders : SwapCleanup(r)
    \/ \E r \in Rebuilders : RebuildReturn(r)
    \/ RedisFail
    \/ RedisRecover

SpecFaulty == InitFaulty /\ [][NextFaulty]_vars

\* The rescan tool alone, run after run with or without --dry-run, over a
\* reachable store, the user being able to interrupt it.
InitTool ==
    /\ InitStore /\ InitProcs
    /\ files \in Trees(PairPaths, 2)
    /\ active = {} /\ ractive = {"rescan"}

NextTool ==
    \/ \E r \in Rebuilders : ScanStep(r)
    \/ \E r \in Rebuilders : SwapStep(r)
    \/ \E r \in Rebuilders : ToolDryRun(r)
    \/ \E r \in Rebuilders : ToolInterrupt(r)
    \/ \E r \in Rebuilders : RebuildReturn(r)

SpecTool == InitTool /\ [][NextTool]_vars

\* A worker starting up (cover_art_cache/app.py) next to a worker that is
\* already serving: startup_cache_scan, then requests.
InitStartup ==
    /\ InitStore
    /\ pc = [p \in Procs |-> "idle"]
    /\ loc = [p \in Procs |-> Idle]
    /\ rpc = [r \in Rebuilders |-> IF r = "startup" THEN "boot" ELSE "idle"]
    /\ rloc = [r \in Rebuilders |-> RIdle]
    /\ InitCleaners
    /\ files \in Trees(PairPaths, 1)
    /\ active = {2} /\ ractive = {"startup"}

ServeStep(p) ==
    \/ CallAdd(p)
    \/ AddRead(p)
    \/ AddExec(p)
    \/ CallRemove(p)
    \/ RemoveExec(p)
    \/ Return(p)

NextStartup ==
    \/ \E r \in Rebuilders : StartupExists(r)
    \/ \E r \in Rebuilders : ScanStep(r)
    \/ \E r \in Rebuilders : SwapStep(r)
    \/ \E r \in Rebuilders : AppStart(r)
    \/ \E p \in Procs : ServeStep(p)

SpecStartup == InitStartup /\ [][NextStartup]_vars

\* The same for the worker of src/app.py: scan_cache_at_startup, then
\* requests.
NextLegacyStartup ==
    \/ \E r \in Rebuilders : LegacyClear(r)
    \/ \E r \in Rebuilders : LegacyVisit(r)
    \/ \E r \in Rebuilders : LegacyNextType(r)
    \/ \E r \in Rebuilders : LegacyAddRead(r)
    \/ \E r \in Rebuilders : LegacyAddExec(r)
    \/ \E r \in Rebuilders : LegacyAppStart(r)
    \/ \E p \in Procs : ServeStep(p)

SpecLegacyStartup == InitStartup /\ [][NextLegacyStartup]_vars

\* One filesystem cleanup service (cover_art_cache/cleaner_service.py), cycle
\* after cycle, over a tree whose files are all indexed.
InitClean ==
    /\ files \in AgedTrees(EvictPaths)
    /\ items = IndexOf(files) /\ total = StrSet(SumSizes(IndexOf(files)))
    /\ tempItems = NoHash /\ tempTotal = NoKey /\ redisUp = TRUE
    /\ pc = [p \in Procs |-> "idle"]
    /\ loc = [p \in Procs |-> Idle]
    /\ rpc = [r \in Rebuilders |-> "idle"]
    /\ rloc = [r \in Rebuilders |-> RIdle]
    /\ InitCleaners
    /\ active = {} /\ ractive = {}

CleanStep(e) ==
    \/ CleanCheck(e)
    \/ CleanVisit(e)
    \/ CleanScanEnd(e)
    \/ CleanDelete(e)
    \/ CleanFinal(e)
    \/ CleanReturn(e)

NextClean == \E e \in {1} : CleanStep(e)

SpecClean == InitClean /\ [][NextClean]_vars

\* One filesystem cleanup service that is told to shut down at some point;
\* the process of the service keeps running until its loop has ended.
ShutdownStep(e) ==
    \/ CleanStep(e)
    \/ CleanStop(e)

NextShutdown ==
    \/ \E e \in {1} : ShutdownStep(e)
    \/ \E e \in {1} : Signal(e)

SpecShutdown ==
    InitClean /\ [][NextShutdown]_vars /\ WF_vars(\E e \in {1} : ShutdownStep(e))

\* One index-driven cleanup service (src/cleaner_service.py), cycle after
\* cycle, over a tree whose files are all indexed.
LegacyCleanStep(e) ==
    \/ LegacyCleanCheck(e)
    \/ LegacyAcquire(e)
    \/ LegacyRecheck(e)
    \/ LegacySelect(e)
    \/ LegacyUnlink(e)
    \/ LegacyRmRead(e)
    \/ LegacyRmExec(e)
    \/ LegacyLoopEnd(e)
    \/ LegacyRelease(e)
    \/ CleanReturn(e)

NextLegacyClean == \E e \in {1} : LegacyCleanStep(e)

SpecLegacyClean == InitClean /\ [][NextLegacyClean]_vars

\* The filesystem cleanup service (1) makes one pass over a tree, then the
\* index-driven cleanup service (2) makes one over the index of the same
\* tree, which the first has left as it was.
NextCompare ==
    \/ \E e \in {1} :
          \/ CleanCheck(e)
          \/ CleanVisit(e)
          \/ CleanScanEnd(e)
          \/ CleanDelete(e)
          \/ CleanFinal(e)
    \/ \E e \in {2} : epc[1] = "done" /\ LegacyCleanCheck(e)
    \/ \E e \in {2} :
          \/ LegacyAcquire(e)
          \/ LegacyRecheck(e)
          \/ LegacySelect(e)
          \/ LegacyUnlink(e)
          \/ LegacyRmRead(e)
          \/ LegacyRmExec(e)
          \/ LegacyLoopEnd(e)
          \/ LegacyRelease(e)

SpecCompare == InitClean /\ [][NextCompare]_vars

\* Several index-driven cleanup services in independent processes, over a
\* store that can become unreachable and that expires the lock.
NextLock ==
    \/ \E e \in Cleaners : LegacyCleanStep(e)
    \/ LockExpire
    \/ RedisFail
    \/ RedisRecover

InitLock ==
    /\ InitClean
    /\ files \in OrderedTrees /\ Cardinality(DOMAIN files) <= MaxLockFiles

SpecLock == InitLock /\ [][NextLock]_vars

\* Several index-driven cleanup services whose pass can raise and whose
\* process can be killed, over a store that expires the lock; the expiry of
\* a key that is set always comes.
NextLockLive ==
    \/ \E e \in Cleaners : LegacyCleanStep(e)
    \/ \E e \in Cleaners : LegacyRaise(e)
    \/ \E e \in Cleaners : LegacyCrash(e)
    \/ LockExpire

SpecLockLive == InitLock /\ [][NextLockLive]_vars /\ WF_vars(LockExpire)

\* The MBIDs of requests: two valid ones, one of them with pairwise
\* different leading characters, one with a letter that is no hex digit, and
\* a valid one followed by a newline.
ShardMbid == [n \in 1..36 |-> IF n \in {9, 14, 19, 24} THEN "-" ELSE HexDigits[(n % 16) + 1]]
NewlineMbid == Mbid(1) \o <<"\n">>
RequestMbids == {Mbid(1), ShardMbid, BadMbid, NewlineMbid}

\* The routes of lines 298-330: all images, the front image, the front
\* image in a thumbnail size, an image by its id (any string without a
\* slash, here one that holds a dot).
RequestShapes ==
    {[path |-> <<>>, size |-> <<>>], [path |-> Front, size |-> <<>>],
     [path |-> Front, size |-> <<"2", "5", "0">>],
     [path |-> <<"7", ".", "j">>, size |-> <<>>]}

\* The steps of handle_coverart_request after its first.
RequestStep(p) ==
    \/ ResolveRedirect(p)
    \/ RequestDownload(p)
    \/ RequestWrite(p)
    \/ AddRead(p)
    \/ AddExec(p)
    \/ Respond(p)

\* One serving process answering one request, for any MBID and route, from
\* an empty cache.
NextRequest ==
    \/ \E p \in Procs, mbid \in RequestMbids, shape \in RequestShapes :
          HandleRequest(p, mbid, shape.path, shape.size)
    \/ \E p \in Procs : RequestStep(p)

SpecRequest == InitSeq /\ [][NextRequest]_vars

\* Several serving processes answering requests for the same key, at once
\* and one after the other, from an empty cache.
NextSameKey ==
    \/ \E p \in Procs : HandleRequest(p, Mbid(1), Front, <<>>)
    \/ \E p \in Procs : RequestStep(p)
    \/ \E p \in Procs : Return(p)

SpecSameKey == Init /\ [][NextSameKey]_vars

\* Several serving processes answering one request each for the same key, at
\* once, from an empty cache.
NextConcurrent ==
    \/ \E p \in Procs : HandleRequest(p, Mbid(1), Front, <<>>)
    \/ \E p \in Procs : RequestStep(p)

SpecConcurrent == Init /\ [][NextConcurrent]_vars

\* One index-driven cleanup service making one pass while a serving process
\* answers one request for a key of the tree.
InitEvictServe ==
    /\ files \in OrderedTrees /\ Cardinality(DOMAIN files) <= MaxLockFiles
    /\ items = IndexOf(files) /\ total = StrSet(SumSizes(IndexOf(files)))
    /\ tempItems = NoHash /\ tempTotal = NoKey /\ redisUp = TRUE
    /\ pc = [p \in Procs |-> "idle"]
    /\ loc = [p \in Procs |-> Idle]
    /\ rpc = [r \in Rebuilders |-> "idle"]
    /\ rloc = [r \in Rebuilders |-> RIdle]
    /\ InitCleaners
    /\ active = {1} /\ ractive = {}

NextEvictServe ==
    \/ \E e \in {1} :
          \/ LegacyCleanCheck(e)
          \/ LegacyAcquire(e)
          \/ LegacyRecheck(e)
          \/ LegacySelect(e)
          \/ LegacyUnlink(e)
          \/ LegacyRmRead(e)
          \/ LegacyRmExec(e)
          \/ LegacyLoopEnd(e)
          \/ LegacyRelease(e)
    \/ \E p \in Procs, i \in 1..MaxLockFiles :
          handle_coverart_request(p, Mbid(1), Front, <<HexDigits[7 + i]>>)
    \/ \E p \in Procs : RequestStep(p)

SpecEvictServe == InitEvictServe /\ [][NextEvictServe]_vars


\* No call of a serving process is between its round trips.
Quiescent == \A p \in active : pc[p] \in {"idle", "returned"}

\* ------------------------------------------------------------------ claims
\* C1: for every sequence of add_item / remove_item calls made one at a time
\* from an empty index, get_total_bytes() is the sum of size_bytes over the
\* indexed entries and get_item_count() is the number of distinct keys present.
C1_TotalIsSumSequential ==
    Quiescent =>
        /\ get_total_bytes(total, TRUE) = SumSizes(items)
        /\ get_item_count(items, TRUE) = Cardinality({k \in Keys : k \in DOMAIN items})

C1_Witness ==
    \E p \in active :
        /\ pc[p] = "returned" /\ loc[p].op = "remove" /\ loc[p].applied
        /\ HLen(items) >= 1 /\ total.val >= 1

\* C2: add_item for a key that is already indexed replaces the entry: the
\* count is unchanged and the counter moves by exactly new size - stored
\* size (so by 0 when the size is identical).
C2_ReAddAppliesDelta ==
    [][\A p \in Procs :
          (pc[p] = "add_exec" /\ pc'[p] = "returned" /\ redisUp
             /\ loc[p].key \in DOMAIN items)
          => /\ get_item_count(items', TRUE) = get_item_count(items, TRUE)
             /\ items'[loc[p].key] = loc[p].item
             /\ get_total_bytes(total', TRUE) =
                   get_total_bytes(total, TRUE)
                     + loc[p].item.size_bytes - items[loc[p].key].size_bytes
             /\ (loc[p].item.size_bytes = items[loc[p].key].size_bytes
                   => get_total_bytes(total', TRUE) = get_total_bytes(total, TRUE))]_vars

C2_Witness ==
    \E p \in active :
        /\ pc[p] = "returned" /\ loc[p].op = "add" /\ loc[p].applied
        /\ loc[p].old_size = loc[p].item.size_bytes
        /\ HLen(items) = 1 /\ total.val = loc[p].item.size_bytes

\* C3: for every interleaving of add_item / remove_item calls of several
\* processes, whenever no call is in flight the counter equals the sum of
\* size_bytes of the indexed entries.
C3_CounterIsSumAtQuiescence ==
    Quiescent => get_total_bytes(total, TRUE) = SumSizes(items)

\* C4: remove_item of a key that is not indexed returns None, raises nothing
\* and changes neither the entries map nor the counter; of an indexed key it
\* deletes exactly that entry, decrements the counter by its stored size,
\* leaves the other entries alone and returns the removed entry.
C4_RemoveEffect ==
    [][\A p \in Procs :
          /\ (pc[p] = "idle" /\ pc'[p] = "returned" /\ loc'[p].op = "remove"
                /\ redisUp /\ loc'[p].key \notin DOMAIN items)
             => /\ loc'[p].result = None /\ ~loc'[p].raised
                /\ items' = items /\ total' = total
          /\ (pc[p] = "rm_exec" /\ pc'[p] = "returned" /\ redisUp)
             => /\ DOMAIN items' = (DOMAIN items) \ {loc[p].key}
                /\ \A k \in DOMAIN items' : items'[k] = items[k]
                /\ total'.val = total.val - items[loc[p].key].size_bytes
                /\ loc'[p].result = items[loc[p].key] /\ ~loc'[p].raised]_vars

C4_Witness ==
    \E p \in active :
        /\ pc[p] = "returned" /\ loc[p].op = "remove" /\ loc[p].applied
        /\ loc[p].result # None /\ HLen(items) = 1
        /\ loc[p].key \notin DOMAIN items

\* C5: while the store is unreachable, get_total_bytes() and get_item_count()
\* return 0, get_items_by_type() returns nothing, add_item / remove_item
\* return without raising and without changing the index, and a download
\* whose file was written still reports success.
C5_StoreDownDefaults ==
    [][(~redisUp /\ ~redisUp') =>
          /\ items' = items /\ total' = total
          /\ \A p \in Procs :
                (pc[p] # "returned" /\ pc'[p] = "returned")
                => /\ ~loc'[p].raised
                   /\ loc'[p].op = "get_total_bytes" => loc'[p].bytes = 0
                   /\ loc'[p].op = "get_item_count" => loc'[p].count = 0
                   /\ loc'[p].op = "get_items_by_type" => loc'[p].listed = {}
                   /\ loc'[p].op = "remove" => loc'[p].result = None
                   /\ (loc'[p].op = "download" /\ pc[p] \in {"add_read", "add_exec"})
                         => loc'[p].success]_vars

C5_Witness ==
    \E p \in active :
        /\ ~redisUp /\ pc[p] = "returned" /\ loc[p].op = "download"
        /\ loc[p].success /\ ~loc[p].applied
        /\ loc[p].item.file_path \in DOMAIN files
        /\ loc[p].key \notin DOMAIN items
        /\ HLen(items) >= 1 /\ total.val >= 1

\* A file name whose leading component is a valid MBID.
WellFormed(file_path) == validate_mbid(SplitFirst(PathStem(file_path.name)))

RECURSIVE SumFileSizes(_)
SumFileSizes(t) ==
    IF DOMAIN t = {} THEN 0
    ELSE LET f == CHOOSE x \in DOMAIN t : TRUE
         IN t[f].size + SumFileSizes(HDel(t, f))

\* A step taken by rebuild pipeline r.
StepOf(r) == rpc'[r] # rpc[r] \/ rloc'[r] # rloc[r]

\* C6: in every state reachable through add_item, remove_item,
\* scan_cache_directory and atomic_index_swap, exists() is true exactly when
\* the live entries map holds at least one entry.
C6_ExistsIffEntries ==
    exists(items, total, TRUE) <=> get_item_count(items, TRUE) > 0

C6_Witness ==
    \E r \in ractive :
        /\ rpc[r] = "done" /\ rloc[r].result
        /\ get_item_count(items, TRUE) >= 1 /\ total.present
        /\ \E p \in active : pc[p] = "returned" /\ loc[p].applied

\* C7: after scan_cache_directory and a successful atomic_index_swap over a
\* tree of N well-formed files totalling B bytes, with no other writer,
\* get_item_count() = N and get_total_bytes() = B.
C7_RoundTrip ==
    \A r \in ractive :
        (rpc[r] = "done" /\ rloc[r].result /\ \A f \in DOMAIN files : WellFormed(f))
        => /\ get_item_count(items, TRUE) = Cardinality(DOMAIN files)
           /\ get_total_bytes(total, TRUE) = SumFileSizes(files)

\* C8: when atomic_index_swap fails after a completed scan (a failing command
\* inside the batch included), it returns failure, the live entries map and
\* the live counter are what they were before the attempt, and the shadow
\* keys are gone.
C8_FailedSwapLeavesLive ==
    [][\A r \in Rebuilders :
          (rpc[r] \in SwapPcs /\ rpc'[r] # rpc[r]
             /\ (rpc'[r] = "swap_cleanup" \/ (rpc'[r] = "done" /\ ~rloc'[r].result)))
          => /\ items' = items /\ total' = total
             /\ rpc'[r] = "done" => (tempItems' = NoHash /\ ~tempTotal'.present)]_vars

\* C9: while atomic_index_swap runs next to serving traffic, the live counter
\* and the live entries map change generation in one step: the swap installs
\* the shadow entries map together with that shadow's counter, and no other
\* step of the pipeline touches the live keys.
C9_SwapPromotesOneGeneration ==
    [][\A r \in Rebuilders :
          StepOf(r) =>
             IF rpc[r] = "swap_exec" /\ rpc'[r] = "done"
             THEN /\ tempTotal.present
                  /\ total' = StrSet(tempTotal.val)
                  /\ items' = tempItems
             ELSE items' = items /\ total' = total]_vars

C9_Witness ==
    \E r \in ractive :
        /\ rpc[r] = "done" /\ rloc[r].result
        /\ get_item_count(items, TRUE) >= 1 /\ total.val >= 1
        /\ \E p \in active : pc[p] = "add_exec"

\* C10: scan_cache_directory never writes, deletes or renames the live
\* entries map or the live counter; all its writes go to the shadow keys.
C10_ScanLeavesLive ==
    [][\A r \in Rebuilders :
          (rpc[r] \in ({"idle"} \cup ScanPcs) /\ StepOf(r))
          => items' = items /\ total' = total]_vars

C10_Witness ==
    \E r \in ractive :
        /\ rpc[r] = "done" /\ rloc[r].raised /\ rloc[r].files_scanned >= 1
        /\ HLen(items) >= 1 /\ total.val >= 1

\* C11: whenever a scan ends abnormally (a store error, or a user interrupt
\* of the rescan tool), the shadow entries map and the shadow counter are
\* gone when control returns, the tool exits non-zero and the live index is
\* unchanged.
C11_AbnormalScanCleansUp ==
    [][\A r \in Rebuilders :
          (rpc[r] \in ScanPcs /\ rpc'[r] = "done")
          => /\ tempItems' = NoHash /\ ~tempTotal'.present
             /\ main_exit_code(rloc'[r]) # 0
             /\ items' = items /\ total' = total]_vars

\* C12: when a dry-run rescan finishes, the shadow entries map and the shadow
\* counter no longer exist and the live index is unchanged.
C12_DryRunDiscardsShadow ==
    [][\A r \in Rebuilders :
          (rpc'[r] = "done" /\ rloc'[r].dry_run /\ ~rloc[r].dry_run)
          => /\ tempItems' = NoHash /\ ~tempTotal'.present
             /\ items' = items /\ total' = total]_vars

\* No two files of the tree share a stem.
DistinctStems(t) ==
    \A f, g \in DOMAIN t : PathStem(f.name) = PathStem(g.name) => f = g

\* The entries a complete scan of a tree without shared stems produces.
CompleteScan(t) ==
    LET good == {f \in DOMAIN t : WellFormed(f)}
        fileOf(k) == CHOOSE f \in good : PathStem(f.name) = k
    IN [k \in {PathStem(f.name) : f \in good} |->
           CacheItem(fileOf(k).dir.cache_type, SplitFirst(k), k, fileOf(k),
                     t[fileOf(k)].mtime, t[fileOf(k)].size)]

\* C13: for every interleaving of two rebuild pipelines, every successful
\* swap installs a live index whose entries are exactly the result of one
\* complete scan and whose counter is the sum of those entries' sizes.
C13_OnlyCompleteScanPromoted ==
    [][\A r \in Rebuilders :
          (rpc[r] = "swap_exec" /\ rpc'[r] = "done" /\ rloc'[r].result
             /\ DistinctStems(files))
          => /\ items' = CompleteScan(files)
             /\ get_total_bytes(total', TRUE) = SumSizes(items')]_vars

\* C14: at process startup, if exists() is false the worker runs the scan and
\* the swap to completion before it accepts any request and aborts startup if
\* either fails; if exists() is true the startup path does not modify the
\* live index.
C14_StartupRebuildsOrLeaves ==
    [][\A r \in {"startup"} :
          /\ (rpc[r] = "boot" /\ StepOf(r) /\ exists(items, total, redisUp))
                => /\ items' = items /\ total' = total
                   /\ rpc'[r] = "done" /\ rloc'[r].result
          /\ (rloc[r].skipped /\ StepOf(r)) => (items' = items /\ total' = total)
          /\ (StartupProc \notin active /\ StartupProc \in active')
                => rpc[r] = "done" /\ rloc[r].result
          /\ (rpc[r] = "done" /\ ~rloc[r].result /\ StepOf(r))
                => rpc'[r] = "exited" /\ StartupProc \notin active']_vars

\* The candidates a pass has deleted, and the files it saw and left alone.
Deleted(e) == {d \in eloc[e].popped : d.path \notin DOMAIN files}
Kept(e) ==
    {f \in eloc[e].visited \cap DOMAIN files :
        \A d \in eloc[e].popped : d.path # f}

\* C16: for every population with usage at or above the high watermark, a
\* pass in which no deletion fails and nothing else writes leaves usage at or
\* below the low-watermark target.
C16_PassReachesTarget ==
    \A e \in Cleaners :
        (epc[e] = "done" /\ eloc[e].outcome = "cleaned" /\ ~eloc[e].failed)
        => get_cache_size(files) <= CLEAN_TO_MB * MB

\* C17: after a pass, no deleted entry is strictly newer than an entry that
\* was present at scan time and was kept, for every scan order and every
\* combination of sizes, whether or not deletions failed.
C17_DeletedNotNewerThanKept ==
    \A e \in Cleaners :
        epc[e] = "done"
        => \A d \in Deleted(e), f \in Kept(e) : ~(d.mtime > files[f].mtime)

\* C18: after a pass that deleted a set D of files, no key of D is in the
\* live entries map and the counter went down by the stored sizes of D, so
\* every entry still has its file and the counter is the sum of the entries.
C18_EvictionRemovesIndexEntries ==
    \A e \in Cleaners :
        epc[e] = "done"
        => /\ \A d \in Deleted(e) : PathStem(d.path.name) \notin DOMAIN items
           /\ \A k \in DOMAIN items : items[k].file_path \in DOMAIN files
           /\ get_total_bytes(total, TRUE) = SumSizes(items)

\* C15: a cycle of the cleanup service goes on to cleanup exactly when the
\* usage it reads is at or above the high-watermark share of the limit, the
\* usage equal to it included; it deletes only then, and bytes_to_free is the
\* usage minus the low-watermark share of the limit.
C15_CleanupAtOrAboveHighWatermark ==
    [][\A e \in Cleaners :
          /\ (epc[e] = "idle" /\ epc'[e] # "idle")
             => (eloc'[e].current_size >= cleanup_threshold_size <=> epc'[e] # "done")
          /\ (epc[e] = "legacy_recheck" /\ epc'[e] = "legacy_select")
             => eloc'[e].bytes_to_free = eloc'[e].current_size - target_size
          /\ (epc[e] = "legacy_loop" /\ files' # files)
             => eloc[e].current_size >= cleanup_threshold_size]_vars

\* C19: at most one cleanup service is between its acquire and its release at
\* any time, for every interleaving of services in independent processes, a
\* pass that outlives the expiry of the lock included.
C19_OneCleanerInSection ==
    Cardinality({e \in Cleaners : epc[e] \in LockedPcs}) <= 1

\* C20: a cycle whose acquire fails, because the lock is there or because the
\* store does not answer, is skipped as a whole: no file is deleted, no index
\* entry removed, the lock key is left alone, nothing is raised and the
\* acquire is not tried again in the cycle.
C20_FailedAcquireSkipsCycle ==
    [][\A e \in Cleaners :
          /\ (epc[e] = "legacy_acquire" /\ epc'[e] # "legacy_acquire"
                 /\ ~(redisUp /\ lock = 0))
             => /\ epc'[e] = "done" /\ eloc'[e].outcome = "skipped"
                /\ ~eloc'[e].raised
                /\ files' = files /\ items' = items /\ total' = total
                /\ lock' = lock
          /\ (epc[e] = "done" /\ eloc[e].outcome = "skipped" /\ epc'[e] # "done")
             => /\ epc'[e] = "idle"
                /\ files' = files /\ items' = items /\ total' = total
                /\ lock' = lock]_vars

\* A cycle was skipped while another service holds the lock in mid-pass.
C20_Witness ==
    \E e \in Cleaners :
        /\ epc[e] = "done" /\ eloc[e].outcome = "skipped"
        /\ lock \in Cleaners \ {e} /\ epc[lock] \in LockedPcs

\* C21: once a cleanup service holds the lock, every way out of its cycle
\* (the return after the re-check, the end of the pass, an exception) goes
\* through the release, which deletes the key when the store answers; and
\* when the holder is killed without releasing, the key goes away with its
\* expiry, so a later cycle can acquire it.
C21_LockReleasedOrExpires ==
    /\ [][\A e \in Cleaners :
             (epc[e] \in LockedPcs /\ epc'[e] \notin LockedPcs /\ epc'[e] # "crashed")
             => (epc[e] = "legacy_release" /\ epc'[e] = "done"
                 /\ (redisUp => lock' = 0))]_vars
    /\ \A e \in Cleaners : (epc[e] = "crashed" /\ lock = e) ~> (lock = 0)

\* The holder was killed in mid-pass and another service holds the lock now.
C21_Witness ==
    \E e \in Cleaners :
        /\ epc[e] = "crashed"
        /\ lock \in Cleaners \ {e} /\ epc[lock] \in LockedPcs

\* The fixed lexical format of an identifier: 8-4-4-4-12 lowercase hex digits.
FixedFormat(id) ==
    /\ Len(id) = 36
    /\ \A n \in 1..36 : IF n \in {9, 14, 19, 24} THEN id[n] = "-" ELSE id[n] \in HexSet

\* C22: for every valid identifier, optional variant and optional size tag,
\* the key is identifier[_variant][_sizeTag] and the path is
\* root/category/id[0]/id[0:2]/id[0:3]/key.ext: the shard directories are the
\* 1-, 2- and 3-character prefixes of the identifier.
C22_PathCodec ==
    \A p \in Procs :
        (loc[p].op = "request" /\ FixedFormat(loc[p].mbid) /\ loc[p].cache_path # None)
        => LET id == loc[p].mbid
               variant == IF loc[p].path = <<>> THEN <<>> ELSE <<"_">> \o loc[p].path
               tag == IF loc[p].size = <<>> THEN <<>> ELSE <<"_">> \o loc[p].size
               key == id \o variant \o tag
           IN /\ loc[p].key = key
              /\ loc[p].cache_path.dir =
                    [cache_type |-> CACHE_TYPE_RELEASE, char1 |-> SubSeq(id, 1, 1),
                     char2 |-> SubSeq(id, 1, 2), char3 |-> SubSeq(id, 1, 3)]
              /\ \E ext \in {download_extension(x) : x \in UpstreamSuffixes} :
                    loc[p].cache_path.name = key \o ext

\* The files of the release tree that a download wrote for a key.
CachedFor(cache_key) ==
    {f \in DOMAIN files :
        f.dir.cache_type = CACHE_TYPE_RELEASE /\ PathStem(f.name) = cache_key}

\* C23: the existence check probes every extension the download path can
\* write: once a request for a key was served as a miss and its file is
\* still there, every later request for the key is served as a hit, without
\* contacting upstream.
C23_LaterRequestsHit ==
    [][\A p \in Procs :
          (/\ pc[p] = "idle" /\ pc'[p] # "idle" /\ loc'[p].op = "request"
           /\ \A q \in Procs \ {p} : pc[q] \in {"idle", "returned"}
           /\ CachedFor(generate_cache_key(loc'[p].mbid, loc'[p].path, loc'[p].size)) # {})
          => /\ pc'[p] = "returned"
             /\ loc'[p].status = 200 /\ loc'[p].cache_status = "HIT"
             /\ loc'[p].upstream = 0]_vars

\* C24: a request whose identifier is not of the fixed format is answered
\* 400 or 404 before any side effect: no upstream call, no file created, the
\* index as it was.
C24_InvalidIdentifierRejected ==
    [][\A p \in Procs :
          (pc[p] = "idle" /\ pc'[p] # "idle" /\ loc'[p].op = "request"
             /\ ~FixedFormat(loc'[p].mbid))
          => /\ pc'[p] = "returned"
             /\ loc'[p].status \in {400, 404}
             /\ loc'[p].upstream = 0
             /\ files' = files /\ items' = items /\ total' = total]_vars

\* The upstream answered every call a request made with success.
UpstreamSucceeded(p) == loc[p].upstream = 0 \/ loc[p].success

\* C25: requests for the same key from several processes all succeed when
\* upstream succeeds: each is answered with success and points at the cached
\* file, and when all have finished the file is on disk and the index holds
\* the entry of the key.
C25_ConcurrentRequestsSucceed ==
    (\A p \in Procs : /\ pc[p] = "returned" /\ loc[p].op = "request"
                      /\ UpstreamSucceeded(p))
    => \A p \in Procs :
          /\ loc[p].status = 200
          /\ loc[p].cache_path \in DOMAIN files
          /\ loc[p].key \in DOMAIN items
          /\ items[loc[p].key].file_path \in DOMAIN files

\* The positions of a pass of the filesystem cleanup service.
PassPcs == {"clean_scan", "clean_delete"}

\* C26: after the shutdown flag is set the loop eventually stops and starts
\* no further cycle, and a pass in progress visits and deletes no further
\* file: it stops at the next file boundary.
C26_CooperativeShutdown ==
    /\ [][\A e \in Cleaners :
             ~running[e]
             => /\ (epc[e] = "idle" => epc'[e] \in {"idle", "stopped"})
                /\ (epc[e] \in PassPcs
                    => /\ eloc'[e].scanned_count = eloc[e].scanned_count
                       /\ eloc'[e].popped = eloc[e].popped
                       /\ files' = files)]_vars
    /\ \A e \in {1} : (~running[e]) ~> (epc[e] = "stopped")

\* The paths a cleanup service took out of the cache in its pass.
Selected(e) == {d.path : d \in eloc[e].popped}

\* C27: the index-driven and the directory-driven cleanup service select the
\* same entries: over the same entries and with the same bytes_to_free, no
\* deletion failing, both delete the same set.
C27_SameSelection ==
    (/\ epc[1] = "done" /\ eloc[1].outcome = "cleaned" /\ ~eloc[1].failed
     /\ epc[2] = "done" /\ eloc[2].outcome = "cleaned" /\ ~eloc[2].failed
     /\ eloc[1].bytes_to_free = eloc[2].bytes_to_free)
    => Selected(1) = Selected(2)

\* C28: a cleanup service that has acquired the lock has selected and deleted
\* nothing before it reads the size again; when that size is at or below the
\* threshold the cycle goes to the release without selecting or deleting
\* anything, and the release, the store answering, drops the lock.
C28_RecheckUnderLock ==
    [][\A e \in Cleaners :
          /\ epc[e] = "legacy_recheck"
                => eloc[e].oldest_items = <<>> /\ eloc[e].popped = {}
          /\ (/\ epc[e] = "legacy_recheck" /\ epc'[e] # "legacy_recheck"
              /\ get_total_bytes(total, redisUp) <= cleanup_threshold_size)
                => /\ epc'[e] = "legacy_release"
                   /\ eloc'[e].popped = {} /\ eloc'[e].oldest_items = <<>>
                   /\ eloc'[e].removed_count = 0 /\ eloc'[e].freed_bytes = 0
                   /\ UNCHANGED <<files, items, total>>
          /\ (/\ epc[e] = "legacy_release" /\ eloc[e].outcome = "below"
              /\ epc'[e] = "done")
                => /\ eloc'[e].popped = {} /\ eloc'[e].removed_count = 0
                   /\ UNCHANGED <<files, items, total>>
                   /\ redisUp => lock' = 0]_vars

\* A service that found the cache above the threshold, took the lock after
\* another service had cleaned, and is about to release it.
C28_Witness ==
    \E e \in Cleaners :
        /\ epc[e] = "legacy_release" /\ eloc[e].outcome = "below" /\ lock = e
        /\ redisUp /\ total.present /\ total.val > 0
        /\ \E o \in Cleaners \ {e} : eloc[o].popped # {}

\* C29: when the unlink of a candidate fails, the pass goes on with the next
\* candidate, freed_bytes stays as it is, and the candidate's file, its
\* entry in the index and the counter are left as they were.
C29_FailedDeletionLeavesEntry ==
    [][\A e \in Cleaners :
          (/\ epc[e] \in {"legacy_rm_read", "legacy_rm_exec"} /\ eloc[e].in_except
           /\ epc'[e] # epc[e])
            => /\ epc'[e] \in {"legacy_rm_exec", "legacy_loop"}
               /\ eloc'[e].freed_bytes = eloc[e].freed_bytes
               /\ eloc'[e].removed_count = eloc[e].removed_count
               /\ UNCHANGED <<files, items, total>>]_vars

\* The ages of the candidates a cleanup service has not drained yet.
Undrained(l) ==
    {c.mtime : c \in l.heap} \cup
    {l.oldest_items[i].downloaded_at : i \in 1..Len(l.oldest_items)}

\* C30: every deletion attempt of a pass is made while freed_bytes is under
\* bytes_to_free and takes the oldest candidate left, so what has been
\* taken is never newer than what is left; the loop is left only with
\* freed_bytes at or above bytes_to_free or with no candidate left.
C30_DrainOldestFirst ==
    [][\A e \in Cleaners :
          /\ eloc'[e].popped # eloc[e].popped
                => /\ eloc[e].freed_bytes < eloc[e].bytes_to_free
                   /\ \A c \in eloc'[e].popped \ eloc[e].popped :
                         /\ \A d \in eloc[e].popped : d.mtime <= c.mtime
                         /\ \A m \in Undrained(eloc'[e]) : c.mtime <= m
          /\ (\/ epc[e] = "clean_delete" /\ epc'[e] = "done"
              \/ epc[e] = "legacy_loop" /\ epc'[e] = "legacy_release")
                => \/ eloc[e].freed_bytes >= eloc[e].bytes_to_free
                   \/ Undrained(eloc[e]) = {}]_vars

\* Both services have stopped with a candidate left, after a deletion that
\* brought freed_bytes to bytes_to_free.
C30_Witness ==
    /\ epc[1] = "done" /\ eloc[1].popped # {} /\ eloc[1].heap # {}
    /\ eloc[1].freed_bytes >= eloc[1].bytes_to_free /\ ~eloc[1].failed
    /\ epc[2] = "done" /\ eloc[2].popped # {} /\ eloc[2].oldest_items # <<>>
    /\ eloc[2].freed_bytes >= eloc[2].bytes_to_free

\* The well-formed files of a tree.
GoodFiles(t) == {f \in DOMAIN t : WellFormed(f)}

\* C31: after a scan and a successful swap over a tree that holds a
\* malformed name, the live index has one entry per well-formed file and
\* none for the malformed one, and its counter is the sum of the sizes of
\* the well-formed files.
C31_MalformedSkipped ==
    \A r \in ractive :
        (rpc[r] = "done" /\ rloc[r].result)
        => /\ get_item_count(items, TRUE) = Cardinality(GoodFiles(files))
           /\ \A k \in DOMAIN items : validate_mbid(items[k].mbid)
           /\ get_total_bytes(total, TRUE) =
                 SumFileSizes([f \in GoodFiles(files) |-> files[f]])

\* C32: for every entry the serving path added, the key the scan derives
\* from the name of the file written for it (the name without its last
\* suffix) is the key of the entry, and the MBID it derives from that key
\* (the part before the first underscore) is the MBID of the entry and
\* passes the scan's validation.
C32_KeyRoundTrip ==
    \A k \in DOMAIN items :
        LET file_path == items[k].file_path
            cache_key == PathStem(file_path.name)
            mbid == SplitFirst(cache_key)
        IN /\ cache_key = k /\ cache_key = items[k].cache_key
           /\ mbid = items[k].mbid /\ validate_mbid(mbid)

\* An entry added for an image id that holds a dot, its file written.
C32_Witness ==
    \E k \in DOMAIN items :
        /\ \E i \in 1..Len(k) : k[i] = "."
        /\ items[k].file_path \in DOMAIN files
        /\ \E p \in active : pc[p] = "returned" /\ loc[p].key = k /\ loc[p].applied

\* C33: when no call is ever started on a key that a call of another
\* process in flight is working on, the counter is the sum of the sizes of
\* the indexed entries whenever no call is in flight.
C33_DriftNeedsSharedKey ==
    Quiescent => total.val = SumSizes(items)

\* Two calls on different keys have both gone through their pipeline, one
\* of them an add over an entry that was there, with both keys indexed.
C33_Witness ==
    /\ pc[1] = "returned" /\ pc[2] = "returned"
    /\ loc[1].applied /\ loc[2].applied /\ loc[1].key # loc[2].key
    /\ loc[1].op = "add" /\ loc[1].old_size > 0
    /\ loc[1].old_size # loc[1].item.size_bytes
    /\ HLen(items) = 2

\* C34: the live counter is never negative.
C34_CounterNeverNegative ==
    get_total_bytes(total, TRUE) >= 0

\* C35: the release of a cleanup service removes the lock key only when the
\* key holds the token that this service has set.
C35_ReleaseOnlyOwnLock ==
    [][\A e \in Cleaners :
          (epc[e] = "legacy_release" /\ epc'[e] = "done" /\ lock # 0 /\ lock' = 0)
          => lock = e]_vars

\* C36: a successful swap keeps every entry of the live index whose file is
\* on disk: the entry is in the live index after the swap and the live
\* counter is the sum of the sizes of the entries it then holds.
C36_SwapKeepsLiveEntries ==
    [][\A r \in Rebuilders :
          (rpc[r] = "swap_exec" /\ rpc'[r] = "done" /\ rloc'[r].result)
          => /\ \A k \in DOMAIN items :
                   items[k].file_path \in DOMAIN files => k \in DOMAIN items'
             /\ (\A p \in active : pc[p] \in {"idle", "returned"})
                   => total'.val = SumSizes(items')]_vars

\* C37: the existence check of a request never succeeds on a file that
\* another request is still writing, and the file a request was given as a
\* hit is not unlinked afterwards by the failed download of another request.
C37_HitOnlyCompleteFile ==
    [][\A p \in Procs :
          /\ (/\ pc[p] = "idle" /\ pc'[p] = "returned" /\ loc'[p].op = "request"
              /\ loc'[p].cache_path # None)
                => ~\E q \in Procs \ {p} :
                       pc[q] = "req_write" /\ loc[q].cache_path = loc'[p].cache_path
          /\ (/\ pc[p] = "returned" /\ pc'[p] = "returned" /\ loc[p].op = "request"
              /\ loc[p].upstream = 0 /\ loc[p].cache_path # None
              /\ loc[p].cache_path \in DOMAIN files)
                => loc[p].cache_path \in DOMAIN files']_vars

\* C38: when a serving process has downloaded again and added again the key
\* whose file the cleanup service unlinked, and the service then removes the
\* index entry of that key, the file on disk still has its index entry and
\* the counter includes its size.
C38_RedownloadStaysIndexed ==
    [][\A p \in active :
          (/\ epc[1] = "legacy_rm_exec" /\ epc'[1] = "legacy_loop"
           /\ ~eloc[1].in_except
           /\ pc[p] \in {"req_respond", "returned"} /\ loc[p].op = "request"
           /\ loc[p].applied /\ loc[p].key = eloc[1].item.cache_key
           /\ loc[p].cache_path \in DOMAIN files)
          => /\ loc[p].key \in DOMAIN items'
             /\ total'.val = SumSizes(items')]_vars

\* C39: when scan_cache_directory has returned normally, the shadow counter
\* is the sum of the sizes of the shadow entries and files_scanned is the
\* number of shadow entries.
C39_ShadowCounterMatchesEntries ==
    \A r \in ractive :
        rpc[r] = "scanned"
        => /\ tempTotal.present /\ tempTotal.val = SumSizes(tempItems)
           /\ rloc[r].files_scanned = Cardinality(DOMAIN tempItems)

\* The sum of the sizes of a set of heap entries.
RECURSIVE HeapSize(_)
HeapSize(heap) ==
    IF heap = {} THEN 0
    ELSE LET c == CHOOSE x \in heap : TRUE
         IN c.size + HeapSize(heap \ {c})

\* C40: during the selection scan, after every visited file the running
\* total accumulated_size is the sum of the sizes of the candidates in the
\* heap and the heap top is the newest candidate; the entry a
\* pop-and-replace step takes out is the newest candidate of the heap.
C40_AccumulatedIsHeapSize ==
    [][\A e \in Cleaners :
          (epc[e] = "clean_scan" /\ eloc'[e].visited # eloc[e].visited)
          => /\ eloc'[e].accumulated_size = HeapSize(eloc'[e].heap)
             /\ \A x \in eloc[e].heap \ eloc'[e].heap :
                   \A y \in eloc[e].heap : y.mtime <= x.mtime
             /\ eloc'[e].heap # {}
                => \A y \in eloc'[e].heap :
                      y.mtime <= HeapTop(eloc'[e].heap).mtime]_vars

\* A scan in which a pop-and-replace step has acted: a visited file is not a
\* candidate although the total is below the target again.
C40_Witness ==
    \E e \in Cleaners :
        /\ epc[e] = "clean_scan" /\ eloc[e].heap # {}
        /\ eloc[e].visited \ {c.path : c \in eloc[e].heap} # {}
        /\ eloc[e].accumulated_size < eloc[e].target_accumulated

====
